---- MODULE Spec2Model ----
(***************************************************************************)
(* The NDJSON-over-TCP SQLite session server (tcp_sqlite_server.c) with    *)
(* the two other users of the shared sqlite3 handle: the HTTP /sql API     *)
(* (sql_api) and the telnet console.  One worker task per accepted TCP     *)
(* connection; every worker owns a slot table and an id counter and shares *)
(* the database handle and a FreeRTOS mutex.                               *)
(***************************************************************************)
EXTENDS Integers, Sequences, FiniteSets, TLC

(* ------------------------------ bounds -------------------------------- *)

\* a prepare that would allocate is offered only while
\* next_stmt_id <= max_stmts_per_client + MaxReuse
MaxReuse == 1

\* the number of rows the query of a prepared statement yields
MaxRows == 2

\* lines of an import file
MaxImportRows == 3

(* ------------------------- program constants -------------------------- *)

DefaultMaxClients == 1
DefaultMaxStmts == 8
DefaultRxLineMax == 2048
DefaultTxLineMax == 4096

(* --------------------------- model universe --------------------------- *)

Conns == {"A", "B"}
NoTask == "none"

\* s_client_fd == -1
NoClient == "-1"

\* the clients of the telnet console
TelnetClients == {"t1", "t2", "t3", "t4"}

\* values of cfg->max_stmts_per_client handed to tcp_sqlite_server_start
CfgMaxStmts == {1, 2}

\* serialized length of a step row response: a short row, a row that fills
\* the transmit limit with its newline, and a row that does not fit it
RowJsonLens == {43, 4095, 4096}

\* sqlite3_column_type of the columns of a row, for the rows the query of a
\* prepared statement can yield
RowShapes ==
  {<<"SQLITE_INTEGER", "SQLITE_NULL">>, <<"SQLITE_TEXT", "SQLITE_FLOAT">>,
   <<"SQLITE_NULL", "SQLITE_BLOB">>}

\* sqlite3_column_count of that query
ColumnCount == Len(CHOOSE ts \in RowShapes : TRUE)

VARIABLES
  cfg_in,         \* the max_stmts_per_client the caller configured
  cfg,            \* template_ctx->cfg after tcp_sqlite_server_start
  pc,             \* position of every task
  slots,          \* c->slots, per connection
  next_stmt_id,   \* c->next_stmt_id, per connection
  req,            \* what the last recv_line of the worker delivered
  resp,           \* lines written to the socket since that recv_line
  slot,           \* the handler's local slot pointer (index, 0 = NULL)
  mutex,          \* holder of each FreeRTOS mutex
  engine_live,    \* compiled statements not yet finalized, with their owner
  engine_misuse,  \* sqlite3_finalize was called on a dead statement
  issued,         \* history: ids returned by successful prepare responses
  finalized,      \* history: ids whose finalize was answered ok
  sent,           \* the lines the peer of the byte-level connection sends
  wire,           \* its bytes recv has not delivered yet
  handed,         \* history: the texts client_task passed to dispatch
  sock_err,       \* send on the connection's socket fails
  db_last,        \* the database after the last script run on the handle
  db_errmsg,      \* the task whose engine call sqlite3_errmsg(db) reports
  s_client_fd,    \* the telnet console's s_client_fd
  tel_peer,       \* the TCP connection of every telnet client
  db_txn,         \* the transaction of the database handle and the imported rows
  tel_import      \* the locals of the console's dot_import

\* the telnet console's session
console == <<s_client_fd, tel_peer>>

vars == <<cfg_in, cfg, pc, slots, next_stmt_id, req, resp, slot, mutex,
          engine_live, engine_misuse, issued, finalized,
          sent, wire, handed, sock_err, db_last, db_errmsg, console,
          db_txn, tel_import>>

\* what only the listener and the peers change
peers == <<cfg_in, cfg, sent, wire, handed, sock_err>>

\* what no statement handler changes
conf == <<peers, db_last, db_errmsg, console, db_txn, tel_import>>

\* the same but for the error state of the database handle
conf_no_errmsg == <<peers, db_last, console, db_txn, tel_import>>

(* ------------------------------ JSON ---------------------------------- *)

JAbsent == [t |-> "absent", n |-> 0, s |-> ""]
JNum(n) == [t |-> "number", n |-> n, s |-> ""]
JStr(s) == [t |-> "string", n |-> 0, s |-> s]
JBool(b) == [t |-> "bool", n |-> IF b THEN 1 ELSE 0, s |-> ""]
JNull == [t |-> "null", n |-> 0, s |-> ""]

cJSON_IsString(it) == it.t = "string"
cJSON_IsNumber(it) == it.t = "number"
cJSON_IsBool(it) == it.t = "bool"

\* NULL is modelled by the string "NULL", which is no request text
json_get_string(it) == IF ~cJSON_IsString(it) THEN "NULL" ELSE it.s

json_get_int(it, def) == IF ~cJSON_IsNumber(it) THEN def ELSE it.n

json_get_bool(it, def) == IF ~cJSON_IsBool(it) THEN def ELSE it.n = 1

(* ---------------------------- responses ------------------------------- *)

\* what sqlite3_changes, sqlite3_total_changes and sqlite3_last_insert_rowid
\* stand for: the task whose script ran last on the handle and the statements
\* of that script that took effect; here before any script
NoCounters == [by |-> NoTask, applied |-> <<>>]

\* the database handle in autocommit mode: no transaction is open; pending
\* are the rows of the import file (by line number) inserted in the open
\* transaction, durable those that were committed
NoTxn == [open |-> FALSE, pending |-> {}, durable |-> {}]

\* dot_import before it runs: file are the lines of the file, line is the
\* number of the line read last, rows and had_error its locals,
\* said the message it ends with
NoImport == [file |-> <<>>, line |-> 0, rows |-> 0, had_error |-> FALSE, said |-> "none"]

\* msg names the message text, len is the length of the serialized object
make_err(code, msg, len) ==
  [ok |-> FALSE, code |-> code, kind |-> msg, stmt |-> 0, row |-> 0, len |-> len,
   cells |-> <<>>, types |-> <<>>, counters |-> NoCounters]

make_ok(kind, stmt, len) ==
  [ok |-> TRUE, code |-> 0, kind |-> kind, stmt |-> stmt, row |-> 0, len |-> len,
   cells |-> <<>>, types |-> <<>>, counters |-> NoCounters]

\* send_json_line writing the line whatever its length
send_json_line_unchecked(out, obj, tx_max) == Append(out, obj)

\* the line is written only when it fits tx_max with its newline
send_json_line(out, obj, tx_max) ==
  IF obj.len + 1 > tx_max THEN out ELSE Append(out, obj)

(* ---------------------------- slot table ------------------------------ *)

FreeSlot == [in_use |-> FALSE, id |-> 0, stmt |-> 0, col_count |-> 0]

\* find_slot_by_id searching the tables of all connections
find_slot_by_id_any_table(tab, id) ==
  IF id <= 0 THEN 0
  ELSE IF \E c \in DOMAIN slots : \E i \in 1..Len(slots[c]) :
            slots[c][i].in_use /\ slots[c][i].id = id
       THEN CHOOSE i \in 1..Len(tab) :
              \E c \in DOMAIN slots :
                i <= Len(slots[c]) /\ slots[c][i].in_use /\ slots[c][i].id = id
       ELSE 0

find_slot_by_id(tab, id) ==
  IF id <= 0 THEN 0
  ELSE IF \E i \in 1..Len(tab) : tab[i].in_use /\ tab[i].id = id
       THEN CHOOSE i \in 1..Len(tab) :
              /\ tab[i].in_use /\ tab[i].id = id
              /\ \A j \in 1..(i-1) : ~(tab[j].in_use /\ tab[j].id = id)
       ELSE 0

\* alloc_slot numbering a statement by its array slot instead of the counter
alloc_slot_by_index(tab, next) ==
  IF \E i \in 1..Len(tab) : ~tab[i].in_use
  THEN LET i == CHOOSE k \in 1..Len(tab) :
                  ~tab[k].in_use /\ \A j \in 1..(k-1) : tab[j].in_use
       IN [idx |-> i,
           tab |-> [tab EXCEPT ![i] = [in_use |-> TRUE, id |-> i,
                                       stmt |-> 0, col_count |-> 0]],
           next |-> next + 1]
  ELSE [idx |-> 0, tab |-> tab, next |-> next]

\* alloc_slot taking the first slot again when none is free
alloc_slot_overwrite(tab, next) ==
  LET i == IF \E k \in 1..Len(tab) : ~tab[k].in_use
           THEN CHOOSE k \in 1..Len(tab) :
                  ~tab[k].in_use /\ \A j \in 1..(k-1) : tab[j].in_use
           ELSE 1
  IN [idx |-> i,
      tab |-> [tab EXCEPT ![i] = [in_use |-> TRUE, id |-> next,
                                  stmt |-> 0, col_count |-> 0]],
      next |-> next + 1]

\* result: the index of the slot taken (0 = NULL), the table and the counter
\* alloc_slot that hands out next_stmt_id without advancing it
alloc_slot_same_id(tab, next) ==
  IF \E i \in 1..Len(tab) : ~tab[i].in_use
  THEN LET i == CHOOSE k \in 1..Len(tab) :
                  ~tab[k].in_use /\ \A j \in 1..(k-1) : tab[j].in_use
       IN [idx |-> i,
           tab |-> [tab EXCEPT ![i] = [in_use |-> TRUE, id |-> next,
                                       stmt |-> 0, col_count |-> 0]],
           next |-> next]
  ELSE [idx |-> 0, tab |-> tab, next |-> next]

alloc_slot(tab, next) ==
  IF \E i \in 1..Len(tab) : ~tab[i].in_use
  THEN LET i == CHOOSE k \in 1..Len(tab) :
                  ~tab[k].in_use /\ \A j \in 1..(k-1) : tab[j].in_use
       IN [idx |-> i,
           tab |-> [tab EXCEPT ![i] = [in_use |-> TRUE, id |-> next,
                                       stmt |-> 0, col_count |-> 0]],
           next |-> next + 1]
  ELSE [idx |-> 0, tab |-> tab, next |-> next]

\* release_slot that forgets to clear in_use and id
release_slot_keeps_id(s) == [s EXCEPT !.stmt = 0, !.col_count = 0]

\* the slot after release_slot; the sqlite3_finalize it makes is Finalized
release_slot(s) == FreeSlot

Finalized(s) == IF s.stmt # 0 THEN {s.stmt} ELSE {}

InUse(tab) == {i \in 1..Len(tab) : tab[i].in_use}

(* --------------------------- configuration ---------------------------- *)

tcp_sqlite_server_start(max_stmts, rx_max, tx_max, max_clients) ==
  [max_clients |-> IF max_clients <= 0 THEN DefaultMaxClients ELSE max_clients,
   max_stmts_per_client |-> IF max_stmts <= 0 THEN DefaultMaxStmts ELSE max_stmts,
   rx_line_max |-> IF rx_max <= 0 THEN DefaultRxLineMax ELSE rx_max,
   tx_line_max |-> IF tx_max <= 0 THEN DefaultTxLineMax ELSE tx_max]

(* ------------------------- what a worker reads ------------------------ *)

\* One outcome of recv_line's reads: the peer closed ("eof"), recv failed
\* ("error"), or a line arrived.  n is the number of bytes recv_line stores
\* (the bytes before the newline that are not CR), cr tells whether a CR
\* preceded the newline, nul0 whether the first stored byte is NUL, json
\* whether cJSON_Parse accepts the text, the rest are the object's members.
BaseLine ==
  [kind |-> "line", n |-> 16, cr |-> FALSE, nul0 |-> FALSE, json |-> TRUE,
   op |-> JAbsent, sql |-> JAbsent, stmt |-> JAbsent, index |-> JAbsent,
   type |-> JAbsent, value |-> JAbsent, clear_binds |-> JAbsent]

NoLine == [BaseLine EXCEPT !.kind = "none", !.n = 0, !.json = FALSE]
Eof == [NoLine EXCEPT !.kind = "eof"]
RecvError == [NoLine EXCEPT !.kind = "error"]
BlankLines == {[BaseLine EXCEPT !.n = 0, !.json = FALSE, !.cr = b] : b \in BOOLEAN}
NulLine == [BaseLine EXCEPT !.nul0 = TRUE, !.json = FALSE]
BadJson == [BaseLine EXCEPT !.json = FALSE]

Op(name) == [BaseLine EXCEPT !.op = JStr(name)]

\* "ws" is text without a statement (blanks or a comment), "bad" does not
\* compile, "good" is a query of ColumnCount columns
SqlVals == {JAbsent, JNum(1), JStr(""), JStr("good"), JStr("bad"), JStr("ws")}

\* stmt members tried on a connection: none, 0, every id handed out so far
\* and the first id not handed out yet
StmtVals(next) == {JAbsent, JNum(0)} \cup {JNum(i) : i \in 1..next}

BindShapes ==
  { <<JNum(1), JStr("int"), JNum(7)>>,    <<JNum(1), JStr("int"), JStr("x")>>,
    <<JNum(1), JStr("text"), JStr("x")>>, <<JNum(1), JStr("text"), JNum(7)>>,
    <<JNum(1), JStr("double"), JNum(7)>>, <<JNum(1), JStr("null"), JAbsent>>,
    <<JNum(1), JStr("blob_b64"), JStr("x")>>,
    <<JAbsent, JStr("int"), JNum(7)>>,    <<JNum(1), JAbsent, JNum(7)>> }

IdCap(max_stmts) == max_stmts + MaxReuse

\* a prepare that takes a slot is offered only below the id cap
PrepareOffered(tab, next) ==
  (\E i \in 1..Len(tab) : ~tab[i].in_use) => next <= IdCap(Len(tab))

Requests(tab, next) ==
  {BadJson, BaseLine, [BaseLine EXCEPT !.op = JNum(1)], Op("ping"), Op("pragma"),
   [Op("pragma") EXCEPT !.sql = JStr("good")], Op("vacuum")}
  \cup {[Op("exec") EXCEPT !.sql = q] : q \in SqlVals \cup {JStr("multi")}}
  \cup {[Op("prepare") EXCEPT !.sql = q] :
          q \in {v \in SqlVals : json_get_string(v) \in {"NULL", ""}
                                  \/ PrepareOffered(tab, next)}}
  \cup {[Op("bind") EXCEPT !.stmt = i, !.index = b[1], !.type = b[2], !.value = b[3]] :
          i \in StmtVals(next), b \in BindShapes}
  \cup {[Op(o) EXCEPT !.stmt = i] : o \in {"step", "finalize"}, i \in StmtVals(next)}
  \cup {[Op("reset") EXCEPT !.stmt = i, !.clear_binds = b] :
          i \in StmtVals(next), b \in {JAbsent, JBool(TRUE), JBool(FALSE)}}

Events(tab, next) ==
  {Eof, RecvError, NulLine} \cup BlankLines \cup Requests(tab, next)

\* the events of the default-configuration specification: the requests that
\* fill and empty the slot table, every prepare with sql text once the table
\* is full, and the end of the session
PoolEvents(tab, next) ==
  {Eof}
  \cup {[Op("prepare") EXCEPT !.sql = q] :
          q \in {v \in {JStr("good")} : PrepareOffered(tab, next)}
                \cup {v \in {JStr("bad"), JStr("ws")} : InUse(tab) = 1..Len(tab)}}
  \cup {[Op("finalize") EXCEPT !.stmt = JNum(tab[i].id)] : i \in InUse(tab)}

\* the events of the two-connection specification: the requests that
\* create, use and free statements, with live and stale ids, and the end of
\* the session
CoreEvents(tab, next) ==
  {Eof}
  \cup {[Op("prepare") EXCEPT !.sql = q] :
          q \in {v \in {JStr("good")} : PrepareOffered(tab, next)}}
  \cup {[Op(o) EXCEPT !.stmt = JNum(i)] : o \in {"step", "finalize"}, i \in 1..2}

\* the events of the statement specification: the requests on prepared
\* statements, with every bind shape, on the ids handed out so far and the
\* first id not handed out yet
StmtEvents(tab, next) ==
  {Eof}
  \cup {[Op("prepare") EXCEPT !.sql = q] :
          q \in {v \in {JStr("good")} : PrepareOffered(tab, next)}}
  \cup {[Op("bind") EXCEPT !.stmt = i, !.index = b[1], !.type = b[2], !.value = b[3]] :
          i \in {JAbsent} \cup {JNum(k) : k \in 1..next}, b \in BindShapes}
  \cup {[Op(o) EXCEPT !.stmt = JNum(i)] : o \in {"step", "finalize"}, i \in 1..next}
  \cup {[Op("reset") EXCEPT !.stmt = JNum(i), !.clear_binds = b] :
          i \in 1..next, b \in {JAbsent, JBool(TRUE), JBool(FALSE)}}

\* the bytes of the byte-level connection: the digit 1, a letter, carriage
\* return and newline
CR == "CR"
LF == "LF"
LineBytes == {"1", "x", CR}

\* values of cfg->rx_line_max of the byte-level specification
CfgRxLineMax == {3, 4}

\* the sequences over S of length lo to hi
Seqs(S, lo, hi) == UNION {[1..k -> S] : k \in lo..hi}

\* what the peer sends: a first line of up to one byte more than the largest
\* rx_line_max, then a short second line, then it closes
SentLines ==
  LET longest == CHOOSE m \in CfgRxLineMax : \A k \in CfgRxLineMax : k <= m
  IN {<<a, b>> : a \in Seqs(LineBytes, 0, longest + 1), b \in Seqs(LineBytes, 0, 2)}

\* the bytes of the lines ls, each followed by its newline
RECURSIVE Bytes(_)
Bytes(ls) == IF ls = <<>> THEN <<>> ELSE Head(ls) \o <<LF>> \o Bytes(Tail(ls))

\* recv_line's loop on the bytes w still to come, with idx bytes in buf:
\* the bytes stored, their number, the bytes left unread, and whether the
\* return was the one for recv() == 0
RECURSIVE recv_line_loop(_, _, _, _)
recv_line_loop(w, buf, idx, maxlen) ==
  IF ~(idx < maxlen - 1) THEN [n |-> idx, buf |-> buf, rest |-> w, closed |-> FALSE]
  ELSE IF w = <<>> THEN [n |-> 0, buf |-> buf, rest |-> w, closed |-> TRUE]
  ELSE IF Head(w) = LF THEN [n |-> idx, buf |-> buf, rest |-> Tail(w), closed |-> FALSE]
  ELSE IF Head(w) = CR THEN recv_line_loop(Tail(w), buf, idx, maxlen)
  ELSE recv_line_loop(Tail(w), Append(buf, Head(w)), idx + 1, maxlen)

\* cJSON_Parse on a text of these bytes: a text that starts with the number
\* 1 parses (what follows the value is not looked at), any other does not
cJSON_Parse(text) == text # <<>> /\ Head(text) = "1"

\* recv_line's return value: 0 on disconnect, -1 on error, else the number
\* of bytes stored
recv_line(ev) ==
  IF ev.kind = "eof" THEN 0
  ELSE IF ev.kind = "error" THEN -1
  ELSE ev.n

(* ------------------- handlers, up to the lock request ----------------- *)

\* where the handler stands after its checks: answered and returned to
\* client_task's loop ("done"), or about to call xSemaphoreTake ("take")
Out(p, rs, tab, nx, sl) ==
  [pc |-> p, out |-> rs, tab |-> tab, next |-> nx, slot |-> sl]

Answer(r, tab, nx) == Out("done", <<r>>, tab, nx, 0)

\* handle_ping asking for the mutex before it answers
handle_ping_take(tab, nx) == Out("take", <<>>, tab, nx, 0)

handle_ping(tab, nx) == Answer(make_ok("pong", 0, 23), tab, nx)

handle_exec_pre(ev, tab, nx) ==
  LET sql == json_get_string(ev.sql) IN
  IF sql = "NULL" \/ sql = "" THEN Answer(make_err(400, "missing sql", 57), tab, nx)
  ELSE Out("take", <<>>, tab, nx, 0)

\* handle_prepare that asks for the mutex before it looks for a free slot
handle_prepare_pre_locks_when_full(ev, tab, nx) ==
  LET sql == json_get_string(ev.sql) IN
  IF sql = "NULL" \/ sql = "" THEN Answer(make_err(400, "missing sql", 57), tab, nx)
  ELSE LET a == alloc_slot(tab, nx) IN Out("take", <<>>, a.tab, a.next, a.idx)

handle_prepare_pre(ev, tab, nx) ==
  LET sql == json_get_string(ev.sql) IN
  IF sql = "NULL" \/ sql = "" THEN Answer(make_err(400, "missing sql", 57), tab, nx)
  ELSE LET a == alloc_slot(tab, nx) IN
       IF a.idx = 0 THEN Answer(make_err(409, "no free stmt slots", 64), a.tab, a.next)
       ELSE Out("take", <<>>, a.tab, a.next, a.idx)

handle_bind_pre(ev, tab, nx) ==
  LET stmt_id == json_get_int(ev.stmt, -1)
      index == json_get_int(ev.index, -1)
      type == json_get_string(ev.type)
  IN IF stmt_id <= 0 \/ index <= 0 \/ type = "NULL"
     THEN Answer(make_err(400, "missing stmt/index/type", 69), tab, nx)
     ELSE LET s == find_slot_by_id(tab, stmt_id) IN
          IF s = 0 \/ tab[s].stmt = 0 THEN Answer(make_err(404, "stmt not found", 60), tab, nx)
          ELSE Out("take", <<>>, tab, nx, s)

handle_step_pre(ev, tab, nx) ==
  LET stmt_id == json_get_int(ev.stmt, -1) IN
  IF stmt_id <= 0 THEN Answer(make_err(400, "missing stmt", 58), tab, nx)
  ELSE LET s == find_slot_by_id(tab, stmt_id) IN
       IF s = 0 \/ tab[s].stmt = 0 THEN Answer(make_err(404, "stmt not found", 60), tab, nx)
       ELSE Out("take", <<>>, tab, nx, s)

handle_reset_pre(ev, tab, nx) ==
  LET stmt_id == json_get_int(ev.stmt, -1) IN
  IF stmt_id <= 0 THEN Answer(make_err(400, "missing stmt", 58), tab, nx)
  ELSE LET s == find_slot_by_id(tab, stmt_id) IN
       IF s = 0 \/ tab[s].stmt = 0 THEN Answer(make_err(404, "stmt not found", 60), tab, nx)
       ELSE Out("take", <<>>, tab, nx, s)

handle_finalize_pre(ev, tab, nx) ==
  LET stmt_id == json_get_int(ev.stmt, -1) IN
  IF stmt_id <= 0 THEN Answer(make_err(400, "missing stmt", 58), tab, nx)
  ELSE LET s == find_slot_by_id(tab, stmt_id) IN
       IF s = 0 THEN Answer(make_err(404, "stmt not found", 60), tab, nx)
       ELSE Out("take", <<>>, tab, nx, s)

\* dispatch leaving the loop on text that is no JSON
dispatch_drop_on_bad_json(ev, tab, nx) ==
  IF ~ev.json THEN Out("cleanup", <<>>, tab, nx, 0)
  ELSE LET op == json_get_string(ev.op) IN
    IF op = "NULL" THEN Answer(make_err(400, "missing op", 56), tab, nx)
    ELSE IF op = "ping" THEN handle_ping(tab, nx)
    ELSE IF op = "exec" THEN handle_exec_pre(ev, tab, nx)
    ELSE IF op = "prepare" THEN handle_prepare_pre(ev, tab, nx)
    ELSE IF op = "bind" THEN handle_bind_pre(ev, tab, nx)
    ELSE IF op = "step" THEN handle_step_pre(ev, tab, nx)
    ELSE IF op = "reset" THEN handle_reset_pre(ev, tab, nx)
    ELSE IF op = "finalize" THEN handle_finalize_pre(ev, tab, nx)
    ELSE Answer(make_err(501, "unknown op", 56), tab, nx)

\* dispatch handing every op it does not know to handle_exec
dispatch_unknown_as_exec(ev, tab, nx) ==
  IF ~ev.json THEN Answer(make_err(400, "invalid json", 58), tab, nx)
  ELSE LET op == json_get_string(ev.op) IN
    IF op = "NULL" THEN Answer(make_err(400, "missing op", 56), tab, nx)
    ELSE IF op = "ping" THEN handle_ping(tab, nx)
    ELSE IF op = "prepare" THEN handle_prepare_pre(ev, tab, nx)
    ELSE IF op = "bind" THEN handle_bind_pre(ev, tab, nx)
    ELSE IF op = "step" THEN handle_step_pre(ev, tab, nx)
    ELSE IF op = "reset" THEN handle_reset_pre(ev, tab, nx)
    ELSE IF op = "finalize" THEN handle_finalize_pre(ev, tab, nx)
    ELSE handle_exec_pre(ev, tab, nx)

dispatch(ev, tab, nx) ==
  IF ~ev.json THEN Answer(make_err(400, "invalid json", 58), tab, nx)
  ELSE LET op == json_get_string(ev.op) IN
    IF op = "NULL" THEN Answer(make_err(400, "missing op", 56), tab, nx)
    ELSE IF op = "ping" THEN handle_ping(tab, nx)
    ELSE IF op = "exec" THEN handle_exec_pre(ev, tab, nx)
    ELSE IF op = "prepare" THEN handle_prepare_pre(ev, tab, nx)
    ELSE IF op = "bind" THEN handle_bind_pre(ev, tab, nx)
    ELSE IF op = "step" THEN handle_step_pre(ev, tab, nx)
    ELSE IF op = "reset" THEN handle_reset_pre(ev, tab, nx)
    ELSE IF op = "finalize" THEN handle_finalize_pre(ev, tab, nx)
    ELSE Answer(make_err(501, "unknown op", 56), tab, nx)

(* ------------------------------ tasks --------------------------------- *)

Tasks == Conns \cup {"http", "telnet", "server"}

\* the mutex app_main creates and hands to the console and the TCP server,
\* and the mutex sql_api_start creates for itself
MutexNames == {"db_mutex", "g_db_mutex"}

\* the db_mutex argument of tcp_sqlite_server_start and of
\* telnet_sqlite_console_start
TcpMutex == "db_mutex"
TelnetMutex == "db_mutex"
\* the static g_db_mutex of sql_api
HttpMutex == "g_db_mutex"

\* the tasks after app_main: no TCP connection, the listener in accept, the
\* HTTP API between two requests, the console at position tel
Started(tel) ==
  [t \in Tasks |-> IF t \in Conns THEN "closed"
                   ELSE IF t = "server" THEN "accept"
                   ELSE IF t = "telnet" THEN tel
                   ELSE "idle"]

InitAt(M, R, P) ==
  /\ cfg_in \in M
  /\ \E rx \in R : cfg = tcp_sqlite_server_start(cfg_in, rx, 0, 0)
  /\ pc = P
  /\ slots = [c \in Conns |-> <<>>]
  /\ next_stmt_id = [c \in Conns |-> 0]
  /\ req = [c \in Conns |-> NoLine]
  /\ resp = [c \in Conns |-> <<>>]
  /\ slot = [c \in Conns |-> 0]
  /\ mutex = [m \in MutexNames |-> NoTask]
  /\ engine_live = {}
  /\ engine_misuse = FALSE
  /\ issued = [c \in Conns |-> {}]
  /\ finalized = [c \in Conns |-> {}]
  /\ handed = <<>>
  /\ sock_err = [c \in Conns |-> FALSE]
  /\ db_last = NoCounters
  /\ db_errmsg = NoTask
  /\ s_client_fd = NoClient
  /\ tel_peer = [k \in TelnetClients |-> "away"]
  /\ db_txn = NoTxn
  /\ tel_import = NoImport

\* the console between two lines of a client
InitWith(M, R) == InitAt(M, R, Started("idle"))

\* no connection is followed byte by byte
Whole == sent = <<>> /\ wire = <<>>

\* the specification of every request shape runs a table of one slot; the
\* tables of two slots are those of InitStmt
Init == InitWith({1}, {0}) /\ Whole

OpIs(c, name) == json_get_string(req[c].op) = name

Goto(c, p) == pc' = [pc EXCEPT ![c] = p]

\* the lines on c's socket after send_json_line: send writes nothing when it
\* fails
Written(c, out, r) ==
  IF sock_err[c] THEN out ELSE send_json_line(out, r, cfg.tx_line_max)

\* send one response line on c's socket
Send(c, r) == resp' = [resp EXCEPT ![c] = Written(c, resp[c], r)]

\* a handler returning without xSemaphoreGive
xSemaphoreGive_forgotten(m) == UNCHANGED mutex

xSemaphoreGive(m) == mutex' = [mutex EXCEPT ![m] = NoTask]

(* ----------------------- listener and worker loop --------------------- *)

\* the per-client context and slot table server_task allocates, and the
\* worker it creates
client_ctx(c) ==
  /\ slots' = [slots EXCEPT ![c] = [i \in 1..cfg.max_stmts_per_client |-> FreeSlot]]
  /\ next_stmt_id' = [next_stmt_id EXCEPT ![c] = 1]
  /\ req' = [req EXCEPT ![c] = NoLine]
  /\ resp' = [resp EXCEPT ![c] = <<>>]
  /\ slot' = [slot EXCEPT ![c] = 0]
  /\ issued' = [issued EXCEPT ![c] = {}]
  /\ finalized' = [finalized EXCEPT ![c] = {}]
  /\ sock_err' = [sock_err EXCEPT ![c] = FALSE]
  /\ UNCHANGED <<cfg_in, cfg, sent, wire, handed, mutex, engine_live, engine_misuse,
                 db_last, db_errmsg, console, db_txn, tel_import>>

\* the number of workers that have not freed their context
ActiveWorkers == Cardinality({c \in Conns : pc[c] # "closed"})

\* server_task refusing a connection while max_clients workers run
server_task_accept_up_to_max_clients(c) ==
  /\ pc["server"] = "accept"
  /\ pc[c] = "closed"
  /\ ActiveWorkers < cfg.max_clients
  /\ Goto(c, "start")
  /\ client_ctx(c)

\* server_task: accept, the per-client context, the worker
server_task_accept(c) ==
  /\ pc["server"] = "accept"
  /\ pc[c] = "closed"
  /\ Goto(c, "start")
  /\ client_ctx(c)

\* what a step of the listener that creates no worker leaves alone
ListenerOnly(p) ==
  /\ pc' = [pc EXCEPT !["server"] = p]
  /\ UNCHANGED <<conf, slots, next_stmt_id, req, resp, slot, mutex,
                 engine_live, engine_misuse, issued, finalized>>

\* server_task deleting itself when accept fails
server_task_accept_fails_exits ==
  /\ pc["server"] = "accept"
  /\ ListenerOnly("deleted")

\* accept returned an error: the log line and vTaskDelay(200 ms)
server_task_accept_fails ==
  /\ pc["server"] = "accept"
  /\ ListenerOnly("delay")

\* the delay is over: continue
server_task_retry ==
  /\ pc["server"] = "delay"
  /\ ListenerOnly("accept")

\* accept returned a socket
server_task_accepted ==
  /\ pc["server"] = "accept"
  /\ \E c \in Conns : pc[c] = "closed"
  /\ ListenerOnly("create")

\* server_task deleting itself when calloc fails
server_task_alloc_fails_exits ==
  /\ pc["server"] = "create"
  /\ ListenerOnly("deleted")

\* calloc of the context or of the slot table failed: close(sock), continue
server_task_alloc_fails ==
  /\ pc["server"] = "create"
  /\ ListenerOnly("accept")

\* the context, the slot table and xTaskCreate for the accepted socket
server_task_create(c) ==
  /\ pc["server"] = "create"
  /\ pc[c] = "closed"
  /\ pc' = [pc EXCEPT ![c] = "start", !["server"] = "accept"]
  /\ client_ctx(c)

\* xTaskCreate returned an error (no memory for the task): its result is not
\* looked at, so the socket stays open and the context and the slot table
\* stay allocated, with no task that would ever release them
server_task_create_fails(c) ==
  /\ pc["server"] = "create"
  /\ pc[c] = "closed"
  /\ pc' = [pc EXCEPT ![c] = "orphan", !["server"] = "accept"]
  /\ client_ctx(c)

\* close(c->sock); free(c->slots); free(c)
Freed(c) ==
  /\ Goto(c, "closed")
  /\ slots' = [slots EXCEPT ![c] = <<>>]
  /\ next_stmt_id' = [next_stmt_id EXCEPT ![c] = 0]
  /\ slot' = [slot EXCEPT ![c] = 0]

\* client_task entering its loop without the greeting
client_task_start_silent(c) ==
  /\ pc[c] = "start"
  /\ \/ /\ Goto(c, "done")
        /\ UNCHANGED <<resp, slots, next_stmt_id, slot>>
     \/ /\ Freed(c)
        /\ UNCHANGED resp
  /\ UNCHANGED <<conf, req, mutex, engine_live, engine_misuse, issued, finalized>>

\* client_task up to its loop: the receive buffer and the greeting
client_task_start(c) ==
  /\ pc[c] = "start"
  /\ \/ /\ Goto(c, "done")
        /\ Send(c, make_ok("hello", 0, 35))
        /\ UNCHANGED <<slots, next_stmt_id, slot>>
     \/ /\ Freed(c)
        /\ UNCHANGED resp
  /\ UNCHANGED <<conf, req, mutex, engine_live, engine_misuse, issued, finalized>>

\* the loop calls recv_line again: the worker waits for the next line
client_task_again(c) ==
  /\ pc[c] = "done"
  /\ Goto(c, "recv")
  /\ req' = [req EXCEPT ![c] = NoLine]
  /\ resp' = [resp EXCEPT ![c] = <<>>]
  /\ UNCHANGED <<conf, slots, next_stmt_id, slot, mutex,
                 engine_live, engine_misuse, issued, finalized>>

\* one turn of client_task's loop: recv_line, the checks on n, dispatch up to
\* the handler's answer or its lock request
client_task_turn(c, E) ==
  /\ pc[c] = "recv"
  /\ \E ev \in E :
       LET n == recv_line(ev) IN
       /\ req' = [req EXCEPT ![c] = ev]
       /\ IF n = 0 \/ n < 0
          THEN /\ Goto(c, "cleanup")
               /\ resp' = [resp EXCEPT ![c] = <<>>]
               /\ UNCHANGED <<slots, next_stmt_id, slot>>
          ELSE IF ev.nul0
          THEN /\ Goto(c, "done")
               /\ resp' = [resp EXCEPT ![c] = <<>>]
               /\ UNCHANGED <<slots, next_stmt_id, slot>>
          ELSE LET o == dispatch(ev, slots[c], next_stmt_id[c]) IN
               /\ Goto(c, o.pc)
               /\ resp' = [resp EXCEPT ![c] =
                    IF o.out = <<>> THEN <<>>
                    ELSE Written(c, <<>>, o.out[1])]
               /\ slots' = [slots EXCEPT ![c] = o.tab]
               /\ next_stmt_id' = [next_stmt_id EXCEPT ![c] = o.next]
               /\ slot' = [slot EXCEPT ![c] = o.slot]
  /\ UNCHANGED <<cfg_in, cfg, sent, sock_err, mutex, engine_live, engine_misuse,
                 issued, finalized, db_last, db_errmsg, console, db_txn, tel_import>>

\* a turn of the loop on a connection whose lines arrive whole
client_task_loop(c, E) == client_task_turn(c, E) /\ UNCHANGED <<wire, handed>>

\* a turn of the loop on the byte-level connection: recv_line on the bytes
\* of the socket, then as above; the text parsed is a number, so it has no op
client_task_loop_wire(c) ==
  LET r == recv_line_loop(wire, <<>>, 0, cfg.rx_line_max)
      ev == IF r.closed THEN Eof
            ELSE [BaseLine EXCEPT !.n = r.n, !.json = cJSON_Parse(r.buf)]
  IN /\ client_task_turn(c, {ev})
     /\ wire' = r.rest
     /\ handed' = IF r.n > 0 THEN Append(handed, r.buf) ELSE handed

(* --------------------------- the lock request ------------------------- *)

\* xSemaphoreTake(c->db_mutex, 5000 ms) returns pdTRUE
TakeOk(c) ==
  /\ pc[c] = "take"
  /\ mutex[TcpMutex] = NoTask
  /\ mutex' = [mutex EXCEPT ![TcpMutex] = c]
  /\ Goto(c, "locked")
  /\ UNCHANGED <<conf, slots, next_stmt_id, req, resp, slot,
                 engine_live, engine_misuse, issued, finalized>>

\* a timed-out handler returning without an answer
TakeTimeout_silent(c) ==
  /\ pc[c] = "take"
  /\ mutex[TcpMutex] # NoTask
  /\ Goto(c, "done")
  /\ slot' = [slot EXCEPT ![c] = 0]
  /\ UNCHANGED <<conf, next_stmt_id, req, resp, mutex,
                 engine_live, engine_misuse, issued, finalized>>

\* xSemaphoreTake with portMAX_DELAY: the handler keeps waiting
TakeTimeout_waits(c) ==
  /\ pc[c] = "take"
  /\ mutex[TcpMutex] # NoTask
  /\ UNCHANGED vars

\* another task kept the mutex for the whole wait: the handler answers 500
\* "db mutex timeout" and returns
TakeTimeout(c) ==
  /\ pc[c] = "take"
  /\ mutex[TcpMutex] # NoTask
  /\ Send(c, make_err(500, "db mutex timeout", 62))
  /\ Goto(c, "done")
  /\ slot' = [slot EXCEPT ![c] = 0]
  /\ UNCHANGED <<conf, next_stmt_id, req, mutex, engine_live, engine_misuse, issued, finalized>>

handle_exec_take(c) == OpIs(c, "exec") /\ TakeOk(c)
handle_exec_timeout(c) == OpIs(c, "exec") /\ TakeTimeout(c) /\ UNCHANGED slots

handle_prepare_take(c) == OpIs(c, "prepare") /\ TakeOk(c)
\* handle_prepare returning on the timeout without release_slot
handle_prepare_timeout_keeps_slot(c) ==
  OpIs(c, "prepare") /\ TakeTimeout(c) /\ UNCHANGED slots

\* release_slot(slot) first: slot->stmt is still NULL, nothing is finalized
handle_prepare_timeout(c) ==
  /\ OpIs(c, "prepare")
  /\ TakeTimeout(c)
  /\ slots' = [slots EXCEPT ![c][slot[c]] = release_slot(@)]

handle_bind_take(c) == OpIs(c, "bind") /\ TakeOk(c)
handle_bind_timeout(c) == OpIs(c, "bind") /\ TakeTimeout(c) /\ UNCHANGED slots

handle_step_take(c) == OpIs(c, "step") /\ TakeOk(c)
handle_step_timeout(c) == OpIs(c, "step") /\ TakeTimeout(c) /\ UNCHANGED slots

handle_reset_take(c) == OpIs(c, "reset") /\ TakeOk(c)
handle_reset_timeout(c) == OpIs(c, "reset") /\ TakeTimeout(c) /\ UNCHANGED slots

handle_finalize_take(c) == OpIs(c, "finalize") /\ TakeOk(c)
handle_finalize_timeout(c) == OpIs(c, "finalize") /\ TakeTimeout(c) /\ UNCHANGED slots

(* ------------------------------ the engine ---------------------------- *)

LiveHandles == {e.h : e \in engine_live}

\* the statement object a successful sqlite3_prepare_v2 returns: the lowest
\* handle that is not live
NewStmt ==
  CHOOSE h \in 1..(Cardinality(engine_live) + 1) :
    h \notin LiveHandles /\ \A k \in 1..(h-1) : k \in LiveHandles

\* parameter 1 of a statement before any sqlite3_bind_* call, after
\* sqlite3_bind_null and after sqlite3_clear_bindings: NULL
NoBinding == [type |-> "null", value |-> JAbsent]

\* the engine's record of statement h
Stmt(h) == CHOOSE e \in engine_live : e.h = h

\* the engine after its record of statement h became e
With(h, e) == {IF x.h = h THEN e ELSE x : x \in engine_live}

\* sqlite3_bind_null / _int64 / _double / _text on parameter 1 returning
\* SQLITE_OK
sqlite3_bind(h, type, value) ==
  With(h, [Stmt(h) EXCEPT !.bound = IF type = "null" THEN NoBinding
                                    ELSE [type |-> type, value |-> value]])

\* sqlite3_step: the next row while rows are left, else SQLITE_DONE; the
\* statement that reported SQLITE_DONE or an error starts over with the next
\* sqlite3_step
sqlite3_step(h, rc) ==
  With(h, [Stmt(h) EXCEPT !.pos = IF rc = "ROW" THEN @ + 1 ELSE 0])

\* handle_reset leaving the cursor where it stands
sqlite3_reset_keeps_cursor(h, clear) ==
  With(h, [Stmt(h) EXCEPT !.bound = IF clear THEN NoBinding ELSE @])

\* handle_reset calling sqlite3_clear_bindings whatever clear_binds says
sqlite3_reset_always_clears(h, clear) ==
  With(h, [Stmt(h) EXCEPT !.pos = 0, !.bound = NoBinding])

\* sqlite3_reset, and sqlite3_clear_bindings when clear is set
sqlite3_reset(h, clear) ==
  With(h, [Stmt(h) EXCEPT !.pos = 0,
                          !.bound = IF clear THEN NoBinding ELSE @])

\* sqlite3_finalize on every handle of hs
sqlite3_finalize(hs) ==
  /\ engine_live' = {e \in engine_live : e.h \notin hs}
  /\ engine_misuse' = (engine_misuse \/ \E h \in hs : h \notin LiveHandles)

\* the handler returns to client_task's loop with its answer sent
Return(c, r) ==
  /\ Send(c, r)
  /\ Goto(c, "done")
  /\ slot' = [slot EXCEPT ![c] = 0]

(* ------------------- handlers, from the lock onwards ------------------ *)

\* the statements of an exec script: "good" is one statement that runs,
\* "bad" one that fails, "ws" holds no statement, and "multi" is a statement
\* that runs, one that fails and one that would run
Script(sql) ==
  IF sql = "good" THEN <<"runs">>
  ELSE IF sql = "bad" THEN <<"fails">>
  ELSE IF sql = "multi" THEN <<"runs", "fails", "runs">>
  ELSE <<>>

\* the first statement of the script that fails, 0 when none does
FirstFailing(script) ==
  IF \E j \in 1..Len(script) : script[j] = "fails"
  THEN CHOOSE j \in 1..Len(script) :
         script[j] = "fails" /\ \A k \in 1..(j-1) : script[k] # "fails"
  ELSE 0

\* handle_exec running the script between BEGIN and ROLLBACK on failure
sqlite3_exec_in_transaction(script) ==
  IF FirstFailing(script) = 0
  THEN [rc |-> "OK", applied |-> [k \in 1..Len(script) |-> k]]
  ELSE [rc |-> "ERROR", applied |-> <<>>]

\* handle_exec running every statement of the script whatever fails
sqlite3_exec_each(script) ==
  [rc |-> IF FirstFailing(script) = 0 THEN "OK" ELSE "ERROR",
   applied |-> SelectSeq([k \in 1..Len(script) |-> k], LAMBDA k : script[k] = "runs")]

\* the one sqlite3_exec call of handle_exec: the statements run in order up
\* to the first that fails, what ran before it stays in effect
sqlite3_exec(script) ==
  IF FirstFailing(script) = 0
  THEN [rc |-> "OK", applied |-> [k \in 1..Len(script) |-> k]]
  ELSE [rc |-> "ERROR", applied |-> [k \in 1..(FirstFailing(script) - 1) |-> k]]

\* sqlite3_exec under the mutex
handle_exec_run(c) ==
  /\ pc[c] = "locked" /\ OpIs(c, "exec")
  /\ db_last' = [by |-> c, applied |-> sqlite3_exec(Script(req[c].sql.s)).applied]
  /\ db_errmsg' = c
  /\ Goto(c, "counters")
  /\ UNCHANGED <<peers, console, db_txn, tel_import, slots, next_stmt_id, req, resp, slot, mutex,
                 engine_live, engine_misuse, issued, finalized>>

\* the three counter reads, xSemaphoreGive, the answer
handle_exec_counters(c) ==
  /\ pc[c] = "counters" /\ OpIs(c, "exec")
  /\ xSemaphoreGive(TcpMutex)
  /\ \E rc \in IF sqlite3_exec(Script(req[c].sql.s)).rc = "OK" THEN {"ok"}
               ELSE {"err_msg", "err_nomsg"} :
       IF rc = "ok" THEN Return(c, [make_ok("exec", 0, 101) EXCEPT !.counters = db_last])
       ELSE IF rc = "err_msg" THEN Return(c, make_err(500, "sqlite", 301))
       ELSE Goto(c, "errmsg") /\ UNCHANGED <<resp, slot>>
  /\ UNCHANGED <<conf, slots, next_stmt_id, req, engine_live, engine_misuse, issued, finalized>>

\* errmsg was NULL: sqlite3_errmsg(c->db) is read after the mutex was given
handle_exec_errmsg(c) ==
  /\ pc[c] = "errmsg" /\ OpIs(c, "exec")
  /\ Return(c, make_err(500, "sqlite", 301))
  /\ UNCHANGED <<conf, slots, next_stmt_id, req, mutex, engine_live, engine_misuse, issued, finalized>>

\* handle_prepare giving the id of the released slot back to the counter
handle_prepare_run_returns_id(c) ==
  /\ pc[c] = "locked" /\ OpIs(c, "prepare")
  /\ xSemaphoreGive(TcpMutex)
  /\ IF req[c].sql.s = "good"
     THEN /\ engine_live' = engine_live \cup {[h |-> NewStmt, by |-> c,
                                                  bound |-> NoBinding, pos |-> 0]}
          /\ slots' = [slots EXCEPT ![c][slot[c]].stmt = NewStmt]
          /\ Goto(c, "colmeta")
          /\ UNCHANGED next_stmt_id
     ELSE /\ slots' = [slots EXCEPT ![c][slot[c]] = release_slot(@)]
          /\ next_stmt_id' = [next_stmt_id EXCEPT ![c] = @ - 1]
          /\ Goto(c, "errmsg")
          /\ UNCHANGED engine_live
  /\ db_errmsg' = c
  /\ UNCHANGED <<conf_no_errmsg, req, resp, slot, engine_misuse, issued, finalized>>

\* sqlite3_prepare_v2, xSemaphoreGive, and the test of rc and stmt
handle_prepare_run(c) ==
  /\ pc[c] = "locked" /\ OpIs(c, "prepare")
  /\ xSemaphoreGive(TcpMutex)
  /\ IF req[c].sql.s = "good"
     THEN /\ engine_live' = engine_live \cup {[h |-> NewStmt, by |-> c,
                                                  bound |-> NoBinding, pos |-> 0]}
          /\ slots' = [slots EXCEPT ![c][slot[c]].stmt = NewStmt]
          /\ Goto(c, "colmeta")
     ELSE \* rc != SQLITE_OK ("bad"), or rc == SQLITE_OK and stmt == NULL ("ws")
          /\ slots' = [slots EXCEPT ![c][slot[c]] = release_slot(@)]
          /\ Goto(c, "errmsg")
          /\ UNCHANGED engine_live
  /\ db_errmsg' = c
  /\ UNCHANGED <<conf_no_errmsg, next_stmt_id, req, resp, slot, engine_misuse, issued, finalized>>

\* sqlite3_errmsg(c->db), read after the mutex was given, and the 500 answer
handle_prepare_errmsg(c) ==
  /\ pc[c] = "errmsg" /\ OpIs(c, "prepare")
  /\ Return(c, make_err(500, "sqlite", 301))
  /\ UNCHANGED <<conf, slots, next_stmt_id, req, mutex, engine_live, engine_misuse, issued, finalized>>

\* sqlite3_column_count and sqlite3_column_name, read after the mutex was
\* given, and the answer carrying slot->id
handle_prepare_meta(c) ==
  /\ pc[c] = "colmeta" /\ OpIs(c, "prepare")
  /\ slots' = [slots EXCEPT ![c][slot[c]].col_count = ColumnCount]
  /\ Return(c, make_ok("stmt", slots[c][slot[c]].id, 47))
  /\ issued' = [issued EXCEPT ![c] = @ \cup {slots[c][slot[c]].id}]
  /\ UNCHANGED <<conf, next_stmt_id, req, mutex, engine_live, engine_misuse,
                 finalized>>

\* handle_bind converting whatever value it gets
BindMismatch_coerce(r) == FALSE

\* the value's JSON shape does not fit type: no sqlite3_bind_* call is made
BindMismatch(r) ==
  LET type == json_get_string(r.type) IN
  \/ type \in {"int", "double"} /\ ~cJSON_IsNumber(r.value)
  \/ type = "text" /\ ~cJSON_IsString(r.value)

\* a type the handler does not know: SQLITE_MISUSE without an engine call
BindMisuse(r) == json_get_string(r.type) \notin {"null", "int", "double", "text"}

handle_bind_run(c) ==
  /\ pc[c] = "locked" /\ OpIs(c, "bind")
  /\ xSemaphoreGive(TcpMutex)
  /\ \E rc \in IF BindMismatch(req[c]) THEN {"MISMATCH"}
               ELSE IF BindMisuse(req[c]) THEN {"MISUSE"}
               ELSE {"OK", "RANGE"} :
       IF rc = "OK"
       THEN /\ engine_live' = sqlite3_bind(slots[c][slot[c]].stmt,
                                           json_get_string(req[c].type), req[c].value)
            /\ Return(c, make_ok("ok", 0, 11))
       ELSE /\ UNCHANGED engine_live
            /\ Return(c, make_err(500, "bind rc", 56))
  /\ db_errmsg' = IF BindMismatch(req[c]) \/ BindMisuse(req[c]) THEN db_errmsg ELSE c
  /\ UNCHANGED <<conf_no_errmsg, slots, next_stmt_id, req, engine_misuse, issued, finalized>>

sqlite_type_to_str(t) ==
  IF t = "SQLITE_INTEGER" THEN "int"
  ELSE IF t = "SQLITE_FLOAT" THEN "double"
  ELSE IF t = "SQLITE_TEXT" THEN "text"
  ELSE IF t = "SQLITE_BLOB" THEN "blob"
  ELSE IF t = "SQLITE_NULL" THEN "null"
  ELSE "unknown"

\* the column loop of handle_step leaving out the NULL columns of "row"
step_row_skips_null(r, ts) ==
  [r EXCEPT !.types = [i \in 1..Len(ts) |-> sqlite_type_to_str(ts[i])],
            !.cells = SelectSeq([i \in 1..Len(ts) |->
                                   IF ts[i] = "SQLITE_NULL" THEN JNull ELSE JStr("text")],
                                LAMBDA x : x # JNull)]

\* the column loop of handle_step sending an integer column as a number
step_row_typed(r, ts) ==
  [r EXCEPT !.types = [i \in 1..Len(ts) |-> sqlite_type_to_str(ts[i])],
            !.cells = [i \in 1..Len(ts) |->
                         IF ts[i] = "SQLITE_NULL" THEN JNull
                         ELSE IF ts[i] = "SQLITE_INTEGER" THEN JNum(1)
                         ELSE JStr("text")]]

\* the column loop of handle_step: "types" gets the name of every column's
\* type, "row" gets null for SQLITE_NULL and sqlite3_column_text otherwise
step_row(r, ts) ==
  [r EXCEPT !.types = [i \in 1..Len(ts) |-> sqlite_type_to_str(ts[i])],
            !.cells = [i \in 1..Len(ts) |->
                         IF ts[i] = "SQLITE_NULL" THEN JNull ELSE JStr("text")]]

\* sqlite3_step and, on a row, the column reads; the answer is built before
\* xSemaphoreGive and sent after it
handle_step_run(c) ==
  /\ pc[c] = "locked" /\ OpIs(c, "step")
  /\ xSemaphoreGive(TcpMutex)
  /\ LET h == slots[c][slot[c]].stmt IN
     \E rc \in {IF Stmt(h).pos < MaxRows THEN "ROW" ELSE "DONE", "ERROR"} :
       /\ engine_live' = sqlite3_step(h, rc)
       /\ IF rc = "ROW"
          THEN \E len \in RowJsonLens, ts \in RowShapes :
                 Return(c, step_row([make_ok("row", 0, len) EXCEPT !.row = Stmt(h).pos + 1],
                                    ts))
          ELSE IF rc = "DONE" THEN Return(c, make_ok("done", 0, 23))
          ELSE Return(c, make_err(500, "sqlite", 301))
  /\ db_errmsg' = c
  /\ UNCHANGED <<conf_no_errmsg, slots, next_stmt_id, req, engine_misuse, issued, finalized>>

\* sqlite3_reset, and sqlite3_clear_bindings unless clear_binds is false
handle_reset_run(c) ==
  /\ pc[c] = "locked" /\ OpIs(c, "reset")
  /\ xSemaphoreGive(TcpMutex)
  /\ engine_live' = sqlite3_reset(slots[c][slot[c]].stmt,
                                  json_get_bool(req[c].clear_binds, TRUE))
  /\ \E rc1 \in {"OK", "ERROR"} :
       IF rc1 = "OK" THEN Return(c, make_ok("ok", 0, 11))
       ELSE Return(c, make_err(500, "reset rc", 67))
  /\ db_errmsg' = c
  /\ UNCHANGED <<conf_no_errmsg, slots, next_stmt_id, req, engine_misuse, issued, finalized>>

\* release_slot(slot) under the mutex
handle_finalize_run(c) ==
  /\ pc[c] = "locked" /\ OpIs(c, "finalize")
  /\ sqlite3_finalize(Finalized(slots[c][slot[c]]))
  /\ slots' = [slots EXCEPT ![c][slot[c]] = release_slot(@)]
  /\ xSemaphoreGive(TcpMutex)
  /\ Return(c, make_ok("ok", 0, 11))
  /\ finalized' = [finalized EXCEPT ![c] = @ \cup {json_get_int(req[c].stmt, -1)}]
  /\ db_errmsg' = c
  /\ UNCHANGED <<conf_no_errmsg, next_stmt_id, req, issued>>

(* ------------------------------ teardown ------------------------------ *)

\* client_task after its loop: xSemaphoreTake(c->db_mutex, 5000 ms), and
\* the "best effort without mutex" branch when the wait times out
cleanup_take(c) ==
  /\ pc[c] = "cleanup"
  /\ \/ /\ mutex[TcpMutex] = NoTask
        /\ mutex' = [mutex EXCEPT ![TcpMutex] = c]
        /\ Goto(c, "cleanup_locked")
     \/ /\ mutex[TcpMutex] # NoTask
        /\ Goto(c, "cleanup_unlocked")
        /\ UNCHANGED mutex
  /\ UNCHANGED <<conf, slots, next_stmt_id, req, resp, slot,
                 engine_live, engine_misuse, issued, finalized>>

\* release_slot on every slot in use, xSemaphoreGive if the mutex was taken,
\* close and free
\* teardown that frees the slot table without sqlite3_finalize
cleanup_release_leaks(c) ==
  /\ pc[c] \in {"cleanup_locked", "cleanup_unlocked"}
  /\ IF pc[c] = "cleanup_locked" THEN xSemaphoreGive(TcpMutex) ELSE UNCHANGED mutex
  /\ Freed(c)
  /\ UNCHANGED <<conf, req, resp, issued, finalized, engine_live, engine_misuse>>

cleanup_release(c) ==
  /\ pc[c] \in {"cleanup_locked", "cleanup_unlocked"}
  /\ sqlite3_finalize(UNION {Finalized(slots[c][i]) : i \in InUse(slots[c])})
  /\ IF pc[c] = "cleanup_locked" THEN xSemaphoreGive(TcpMutex) ELSE UNCHANGED mutex
  /\ Freed(c)
  /\ db_errmsg' = c
  /\ UNCHANGED <<conf_no_errmsg, req, resp, issued, finalized>>

(* ------------------ the other users of the database ------------------- *)

\* exec_sql_all of sql_api: xSemaphoreTake(g_db_mutex, portMAX_DELAY), the
\* statements of the POST body, xSemaphoreGive
http_take ==
  /\ pc["http"] = "idle"
  /\ mutex[HttpMutex] = NoTask
  /\ mutex' = [mutex EXCEPT ![HttpMutex] = "http"]
  /\ Goto("http", "locked")
  /\ UNCHANGED <<conf, slots, next_stmt_id, req, resp, slot,
                 engine_live, engine_misuse, issued, finalized>>

http_give ==
  /\ pc["http"] = "locked"
  /\ db_last' = [by |-> "http", applied |-> <<1>>]
  /\ db_errmsg' = "http"
  /\ xSemaphoreGive(HttpMutex)
  /\ Goto("http", "idle")
  /\ UNCHANGED <<peers, console, db_txn, tel_import, slots, next_stmt_id, req, resp, slot,
                 engine_live, engine_misuse, issued, finalized>>

\* exec_sql_text of the telnet console: xSemaphoreTake(s_db_mutex,
\* portMAX_DELAY), the statements of the input line, xSemaphoreGive
telnet_take ==
  /\ pc["telnet"] = "idle"
  /\ mutex[TelnetMutex] = NoTask
  /\ mutex' = [mutex EXCEPT ![TelnetMutex] = "telnet"]
  /\ Goto("telnet", "locked")
  /\ UNCHANGED <<conf, slots, next_stmt_id, req, resp, slot,
                 engine_live, engine_misuse, issued, finalized>>

telnet_give ==
  /\ pc["telnet"] = "locked"
  /\ db_last' = [by |-> "telnet", applied |-> <<1>>]
  /\ db_errmsg' = "telnet"
  /\ xSemaphoreGive(TelnetMutex)
  /\ Goto("telnet", "idle")
  /\ UNCHANGED <<peers, console, db_txn, tel_import, slots, next_stmt_id, req, resp, slot,
                 engine_live, engine_misuse, issued, finalized>>

(* ------------------------ the console's .import ----------------------- *)

\* the lines of an import file: "ok" has the field count of the first line
\* and its insert succeeds, "short" has another field count, the insert of
\* "fail" fails; the first line is the one that sets the field count
ImportFiles ==
  {f \in UNION {[1..n -> {"ok", "short", "fail"}] : n \in 1..MaxImportRows} :
     f[1] # "short"}

\* sqlite3_exec of one transaction statement on the handle: BEGIN inside a
\* transaction, and COMMIT or ROLLBACK outside one, fail and change nothing;
\* sqlite_exec_simple prints the error and goes on
sqlite3_exec_txn(t, sql) ==
  IF sql = "BEGIN" THEN [t EXCEPT !.open = TRUE]
  ELSE IF ~t.open THEN t
  ELSE IF sql = "COMMIT"
       THEN [open |-> FALSE, pending |-> {}, durable |-> t.durable \cup t.pending]
       ELSE [open |-> FALSE, pending |-> {}, durable |-> t.durable]

\* sqlite3_step of the insert returning SQLITE_DONE: the row of line k is
\* part of the open transaction, or durable at once in autocommit mode
insert_row(t, k) ==
  IF t.open THEN [t EXCEPT !.pending = @ \cup {k}]
  ELSE [t EXCEPT !.durable = @ \cup {k}]

\* what the telnet console's import leaves alone
ImportOnly ==
  UNCHANGED <<peers, db_last, console, slots, next_stmt_id, req, resp, slot,
              engine_live, engine_misuse, issued, finalized>>

\* dot_import up to xSemaphoreTake(s_db_mutex, portMAX_DELAY): the file is
\* open and its first line parsed
dot_import_take ==
  /\ pc["telnet"] = "idle"
  /\ mutex[TelnetMutex] = NoTask
  /\ mutex' = [mutex EXCEPT ![TelnetMutex] = "telnet"]
  /\ \E f \in ImportFiles : tel_import' = [NoImport EXCEPT !.file = f]
  /\ db_txn' = [db_txn EXCEPT !.durable = {}]
  /\ Goto("telnet", "import_begin")
  /\ UNCHANGED db_errmsg
  /\ ImportOnly

\* BEGIN and sqlite3_prepare_v2 of the insert; when the statement does not
\* compile: ROLLBACK, xSemaphoreGive, return
dot_import_begin ==
  /\ pc["telnet"] = "import_begin"
  /\ db_errmsg' = "telnet"
  /\ \E prc \in {"OK", "ERROR"} :
       LET t == sqlite3_exec_txn(db_txn, "BEGIN") IN
       IF prc = "OK"
       THEN /\ db_txn' = t
            /\ Goto("telnet", "import_rows")
            /\ UNCHANGED <<mutex, tel_import>>
       ELSE /\ db_txn' = sqlite3_exec_txn(t, "ROLLBACK")
            /\ xSemaphoreGive(TelnetMutex)
            /\ tel_import' = [tel_import EXCEPT !.said = "prepare failed"]
            /\ Goto("telnet", "idle")
  /\ ImportOnly

\* one line of the file, the first one included: a line of another field
\* count is skipped with a warning, else reset, clear, bind and step
dot_import_row ==
  /\ pc["telnet"] = "import_rows"
  /\ ~tel_import.had_error
  /\ tel_import.line < Len(tel_import.file)
  /\ LET k == tel_import.line + 1
         nf2 == tel_import.file[k]
     IN IF nf2 = "short"
        THEN /\ tel_import' = [tel_import EXCEPT !.line = k]
             /\ UNCHANGED <<db_txn, db_errmsg>>
        ELSE IF nf2 = "ok"
        THEN /\ tel_import' = [tel_import EXCEPT !.line = k, !.rows = @ + 1]
             /\ db_txn' = insert_row(db_txn, k)
             /\ db_errmsg' = "telnet"
        ELSE /\ tel_import' = [tel_import EXCEPT !.line = k, !.had_error = TRUE]
             /\ db_errmsg' = "telnet"
             /\ UNCHANGED db_txn
  /\ UNCHANGED <<pc, mutex>>
  /\ ImportOnly

\* after the loop: sqlite3_finalize, COMMIT or ROLLBACK, xSemaphoreGive and
\* the closing message
dot_import_end ==
  /\ pc["telnet"] = "import_rows"
  /\ tel_import.had_error \/ tel_import.line = Len(tel_import.file)
  /\ db_txn' = sqlite3_exec_txn(db_txn, IF tel_import.had_error THEN "ROLLBACK"
                                         ELSE "COMMIT")
  /\ tel_import' = [tel_import EXCEPT !.said = IF tel_import.had_error THEN "failed"
                                                ELSE "imported"]
  /\ db_errmsg' = "telnet"
  /\ xSemaphoreGive(TelnetMutex)
  /\ Goto("telnet", "idle")
  /\ ImportOnly

\* exec_sql_all of sql_api running a POST body that is one transaction
\* statement, and xSemaphoreGive(g_db_mutex)
exec_sql_all(sql) ==
  /\ pc["http"] = "locked"
  /\ db_txn' = sqlite3_exec_txn(db_txn, sql)
  /\ db_errmsg' = "http"
  /\ xSemaphoreGive(HttpMutex)
  /\ Goto("http", "idle")
  /\ UNCHANGED <<peers, db_last, console, tel_import, slots, next_stmt_id, req, resp,
                 slot, engine_live, engine_misuse, issued, finalized>>

(* --------------------------- specifications --------------------------- *)

Worker(c, E) ==
  \/ client_task_start(c)
  \/ client_task_loop(c, E)
  \/ client_task_again(c)
  \/ handle_exec_take(c) \/ handle_exec_timeout(c)
  \/ handle_exec_run(c) \/ handle_exec_counters(c) \/ handle_exec_errmsg(c)
  \/ handle_prepare_take(c) \/ handle_prepare_timeout(c)
  \/ handle_prepare_run(c) \/ handle_prepare_errmsg(c) \/ handle_prepare_meta(c)
  \/ handle_bind_take(c) \/ handle_bind_timeout(c) \/ handle_bind_run(c)
  \/ handle_step_take(c) \/ handle_step_timeout(c) \/ handle_step_run(c)
  \/ handle_reset_take(c) \/ handle_reset_timeout(c) \/ handle_reset_run(c)
  \/ handle_finalize_take(c) \/ handle_finalize_timeout(c) \/ handle_finalize_run(c)
  \/ cleanup_take(c) \/ cleanup_release(c)

\* one TCP connection with every request shape, beside the console and the
\* HTTP API
Next ==
  \/ server_task_accept("A")
  \/ Worker("A", Events(slots["A"], next_stmt_id["A"]))
  \/ telnet_take \/ telnet_give
  \/ http_take \/ http_give

Spec == Init /\ [][Next]_vars

\* two TCP connections with one slot each, contending for the mutex
InitTwo == InitWith({1}, {0}) /\ Whole

WorkerTwo(c, E) ==
  \/ client_task_start(c)
  \/ client_task_loop(c, E)
  \/ client_task_again(c)
  \/ handle_prepare_take(c) \/ handle_prepare_timeout(c)
  \/ handle_prepare_run(c) \/ handle_prepare_meta(c)
  \/ handle_step_take(c) \/ handle_step_timeout(c) \/ handle_step_run(c)
  \/ handle_finalize_take(c) \/ handle_finalize_timeout(c) \/ handle_finalize_run(c)
  \/ cleanup_take(c) \/ cleanup_release(c)

NextTwo ==
  \E c \in Conns :
    \/ server_task_accept(c)
    \/ WorkerTwo(c, CoreEvents(slots[c], next_stmt_id[c]))

SpecTwo == InitTwo /\ [][NextTwo]_vars

\* two TCP connections and a listener whose accept and allocations can fail
NextListen ==
  \/ server_task_accept_fails
  \/ server_task_retry
  \/ server_task_accepted
  \/ server_task_alloc_fails
  \/ \E c \in Conns :
       \/ server_task_create(c)
       \/ server_task_create_fails(c)
       \/ WorkerTwo(c, CoreEvents(slots[c], next_stmt_id[c]))

SpecListen == InitTwo /\ [][NextListen]_vars

\* what the worker of c does without waiting for its peer: everything but
\* the recv_line of its loop
Progress(c) ==
  \/ client_task_start(c)
  \/ client_task_again(c)
  \/ handle_prepare_take(c) \/ handle_prepare_timeout(c)
  \/ handle_prepare_run(c) \/ handle_prepare_meta(c)
  \/ handle_finalize_take(c) \/ handle_finalize_timeout(c) \/ handle_finalize_run(c)
  \/ cleanup_take(c) \/ cleanup_release(c)

\* two TCP connections and the console contending for the mutex, under a
\* scheduler that lets every task that can run take its next step and with
\* engine calls that return
NextLive ==
  \/ \E c \in Conns :
       \/ server_task_accept(c)
       \/ client_task_loop(c, PoolEvents(slots[c], next_stmt_id[c]))
       \/ Progress(c)
  \/ telnet_take \/ telnet_give

SpecLive ==
  /\ InitTwo /\ [][NextLive]_vars
  /\ \A c \in Conns : WF_vars(Progress(c))
  /\ WF_vars(telnet_give)

(* -------------------------- the telnet console ------------------------ *)

\* a client connects to the console's port: the connection waits in the
\* backlog of s_listen_fd
telnet_peer_connect(k) ==
  /\ tel_peer[k] = "away"
  /\ tel_peer' = [tel_peer EXCEPT ![k] = "queued"]
  /\ UNCHANGED <<peers, db_last, db_errmsg, db_txn, tel_import, s_client_fd, pc, slots, next_stmt_id, req, resp, slot,
                 mutex, engine_live, engine_misuse, issued, finalized>>

\* close_client_locked: shutdown and close of s_client_fd when there is one
close_client_locked == [j \in TelnetClients |-> IF j = s_client_fd THEN "closed" ELSE tel_peer[j]]

\* telnet_task: accept returns the connection of k; close_client_locked,
\* s_client_fd = fd, telnet_init, the banner and the prompt
telnet_task_accept(k) ==
  /\ pc["telnet"] = "accept"
  /\ tel_peer[k] = "queued"
  /\ tel_peer' = [close_client_locked EXCEPT ![k] = "served"]
  /\ s_client_fd' = k
  /\ Goto("telnet", "idle")
  /\ UNCHANGED <<peers, db_last, db_errmsg, db_txn, tel_import, slots, next_stmt_id, req, resp, slot,
                 mutex, engine_live, engine_misuse, issued, finalized>>

\* telnet_task's inner loop: recv on the client's socket returned <= 0 (the
\* client went away); close_client_locked, and back to accept
telnet_task_recv_end ==
  /\ pc["telnet"] = "idle"
  /\ s_client_fd # NoClient
  /\ tel_peer' = close_client_locked
  /\ s_client_fd' = NoClient
  /\ Goto("telnet", "accept")
  /\ UNCHANGED <<peers, db_last, db_errmsg, db_txn, tel_import, slots, next_stmt_id, req, resp, slot,
                 mutex, engine_live, engine_misuse, issued, finalized>>

\* the console alone, waiting in accept, and the clients that connect to it
InitTelnet == InitAt({1}, {0}, Started("accept")) /\ Whole

NextTelnet ==
  \/ \E k \in TelnetClients : telnet_peer_connect(k) \/ telnet_task_accept(k)
  \/ telnet_task_recv_end
  \/ telnet_take \/ telnet_give

SpecTelnet == InitTelnet /\ [][NextTelnet]_vars

\* the console importing files while the HTTP API runs transaction
\* statements on the same handle
NextImport ==
  \/ dot_import_take \/ dot_import_begin \/ dot_import_row \/ dot_import_end
  \/ http_take
  \/ \E sql \in {"BEGIN", "COMMIT", "ROLLBACK"} : exec_sql_all(sql)

SpecImport == Init /\ [][NextImport]_vars

\* the console importing files with no other user of the database
NextImportAlone ==
  dot_import_take \/ dot_import_begin \/ dot_import_row \/ dot_import_end

SpecImportAlone == Init /\ [][NextImportAlone]_vars

\* one TCP connection under the default configuration (a configured
\* max_stmts_per_client <= 0) and with a single slot, filling and emptying
\* its slot table
InitDefault == InitWith({0, 1}, {0}) /\ Whole

PoolWorker(c, E) ==
  \/ client_task_start(c)
  \/ client_task_loop(c, E)
  \/ client_task_again(c)
  \/ handle_prepare_take(c) \/ handle_prepare_run(c) \/ handle_prepare_meta(c)
  \/ handle_finalize_take(c) \/ handle_finalize_run(c)
  \/ cleanup_take(c) \/ cleanup_release(c)

NextDefault ==
  \/ server_task_accept("A")
  \/ PoolWorker("A", PoolEvents(slots["A"], next_stmt_id["A"]))

SpecDefault == InitDefault /\ [][NextDefault]_vars

\* one TCP connection with a table of one or of two slots and the requests
\* on prepared statements
InitStmt == InitWith(CfgMaxStmts, {0}) /\ Whole

StmtWorker(c, E) ==
  \/ client_task_start(c)
  \/ client_task_loop(c, E)
  \/ client_task_again(c)
  \/ handle_prepare_take(c) \/ handle_prepare_run(c) \/ handle_prepare_meta(c)
  \/ handle_bind_take(c) \/ handle_bind_run(c)
  \/ handle_step_take(c) \/ handle_step_run(c)
  \/ handle_reset_take(c) \/ handle_reset_run(c)
  \/ handle_finalize_take(c) \/ handle_finalize_run(c)
  \/ cleanup_take(c) \/ cleanup_release(c)

NextStmt ==
  \/ server_task_accept("A")
  \/ StmtWorker("A", StmtEvents(slots["A"], next_stmt_id["A"]))

SpecStmt == InitStmt /\ [][NextStmt]_vars

\* one TCP connection followed byte by byte, with a small rx_line_max: the
\* peer connects, sends its lines and closes
InitWire ==
  /\ InitWith({1}, CfgRxLineMax)
  /\ sent \in SentLines
  /\ wire = Bytes(sent)

server_task_accept_wire(c) ==
  /\ wire = Bytes(sent)
  /\ server_task_accept(c)

NextWire ==
  \/ server_task_accept_wire("A")
  \/ client_task_start("A")
  \/ client_task_loop_wire("A")
  \/ client_task_again("A")
  \/ cleanup_take("A")
  \/ cleanup_release("A")

SpecWire == InitWire /\ [][NextWire]_vars

\* send on c's socket starts or stops failing
send_outcome(c) ==
  /\ pc[c] # "closed"
  /\ sock_err' = [sock_err EXCEPT ![c] = ~@]
  /\ UNCHANGED <<cfg_in, cfg, pc, slots, next_stmt_id, req, resp, slot, mutex,
                 engine_live, engine_misuse, issued, finalized, sent, wire, handed,
                 db_last, db_errmsg, console, db_txn, tel_import>>

\* two TCP connections whose reads and writes can fail
NextIO ==
  \E c \in Conns :
    \/ server_task_accept(c)
    \/ WorkerTwo(c, CoreEvents(slots[c], next_stmt_id[c]) \cup {RecvError})
    \/ send_outcome(c)

SpecIO == InitTwo /\ [][NextIO]_vars

(* ----------------------------- properties ---------------------------- *)

\* the task is inside a call into the SQLite library on the shared handle
InEngine(t) ==
  IF t \in Conns
  THEN \/ pc[t] = "locked"
          /\ ~(OpIs(t, "bind") /\ (BindMismatch(req[t]) \/ BindMisuse(req[t])))
       \/ pc[t] = "counters"
       \/ pc[t] \in {"errmsg", "colmeta"}
       \/ pc[t] \in {"cleanup_locked", "cleanup_unlocked"}
          /\ \E i \in InUse(slots[t]) : slots[t][i].stmt # 0
  ELSE pc[t] = "locked"

IsOp(r, name) == r.kind = "line" /\ json_get_string(r.op) = name

\* the worker of c reads a line in this step
Reads(c) == pc[c] = "recv" /\ pc'[c] # "recv"

IdsInUse(tab) == {tab[i].id : i \in InUse(tab)}

\* v is a positive id that no slot in use of the table carries
StaleId(tab, v) == cJSON_IsNumber(v) /\ v.n >= 1 /\ v.n \notin IdsInUse(tab)

\* v is a positive id that c never returned from a prepare, or that a
\* finalize on c has released since
NeverIssuedOrFinalized(c, v) ==
  cJSON_IsNumber(v) /\ v.n >= 1 /\ (v.n \notin issued[c] \/ v.n \in finalized[c])

Answered(c, code) ==
  pc[c] = "done" /\ Len(resp[c]) = 1 /\ ~resp[c][1].ok /\ resp[c][1].code = code

\* C1: on a connection, the stmt id of every successful prepare response is
\* greater than every id returned before on that connection, also when the
\* array slot is one that an earlier statement occupied.
C1_IdsStrictlyIncreasing ==
  [][\A c \in Conns :
       (pc[c] = "colmeta" /\ pc'[c] = "done") =>
         /\ Len(resp'[c]) = 1
         /\ resp'[c][1].kind = "stmt"
         /\ resp'[c][1].stmt = slots[c][slot[c]].id
         /\ \A j \in issued[c] : resp'[c][1].stmt > j]_vars

\* a prepare answered from a slot that held an earlier statement
C1_Witness ==
  \E c \in Conns :
    /\ pc[c] = "done" /\ Len(resp[c]) = 1 /\ resp[c][1].kind = "stmt"
    /\ Cardinality(issued[c]) > Len(slots[c])

\* C2: a connection never has more slots in use than max_stmts_per_client,
\* which is 8 when the configured value is <= 0 and the configured value
\* otherwise; a prepare with non-empty sql read while every slot is in use is
\* answered 409 and changes neither the table nor the counter nor the engine.
C2_PoolBounded ==
  /\ [](\A c \in Conns : pc[c] # "closed" =>
          /\ cfg.max_stmts_per_client = (IF cfg_in <= 0 THEN 8 ELSE cfg_in)
          /\ Len(slots[c]) = cfg.max_stmts_per_client
          /\ Cardinality(InUse(slots[c])) <= cfg.max_stmts_per_client)
  /\ [][\A c \in Conns :
          ( /\ Reads(c)
            /\ IsOp(req'[c], "prepare")
            /\ json_get_string(req'[c].sql) \notin {"NULL", ""}
            /\ InUse(slots[c]) = 1..Len(slots[c]) ) =>
              /\ pc'[c] = "done"
              /\ resp'[c] = <<make_err(409, "no free stmt slots", 64)>>
              /\ slots'[c] = slots[c]
              /\ next_stmt_id'[c] = next_stmt_id[c]
              /\ engine_live' = engine_live]_vars

\* the ninth prepare on a default table of eight slots, answered 409
C2_Witness ==
  \E c \in Conns :
    /\ cfg_in <= 0 /\ Len(slots[c]) = 8 /\ Cardinality(InUse(slots[c])) = 8
    /\ IsOp(req[c], "prepare") /\ Answered(c, 409)

\* C3 as stated: every bind, step, reset or finalize whose stmt is an id not
\* issued on this connection, or issued and finalized since, is answered 404
\* and modifies no slot.
C3_StaleIdIs404 ==
  [][\A c \in Conns :
       ( /\ Reads(c)
         /\ \E o \in {"bind", "step", "reset", "finalize"} : IsOp(req'[c], o)
         /\ NeverIssuedOrFinalized(c, req'[c].stmt) ) =>
           /\ pc'[c] = "done"
           /\ resp'[c] = <<make_err(404, "stmt not found", 60)>>
           /\ slots'[c] = slots[c]
           /\ next_stmt_id'[c] = next_stmt_id[c]]_vars

\* C3 as amended: every step, reset or finalize, and every bind that carries
\* a positive index and a string type, whose stmt is a positive id not in use
\* on this connection (never issued, or finalized since) is answered 404 and
\* modifies no slot; so a second finalize of the same id is answered 404.
C3_StaleIdIs404_WellFormed ==
  [][\A c \in Conns :
       ( /\ Reads(c)
         /\ \/ \E o \in {"step", "reset", "finalize"} : IsOp(req'[c], o)
            \/ /\ IsOp(req'[c], "bind")
               /\ json_get_int(req'[c].index, -1) > 0
               /\ json_get_string(req'[c].type) # "NULL"
         /\ NeverIssuedOrFinalized(c, req'[c].stmt) ) =>
           /\ pc'[c] = "done"
           /\ resp'[c] = <<make_err(404, "stmt not found", 60)>>
           /\ slots'[c] = slots[c]
           /\ next_stmt_id'[c] = next_stmt_id[c]]_vars

\* a finalize of an id that was issued and is no longer in use, answered 404
C3_Witness ==
  \E c \in Conns :
    /\ IsOp(req[c], "finalize") /\ Answered(c, 404)
    /\ req[c].stmt.n \in finalized[c]

\* C4: a worker is inside an engine call only while it holds the mutex, and
\* no two tasks sharing that mutex are inside an engine call together.
C4_EngineCallsHoldLock ==
  /\ \A c \in Conns : InEngine(c) => mutex[TcpMutex] = c
  /\ \A t, u \in Conns \cup {"telnet"} : InEngine(t) /\ InEngine(u) => t = u

\* C5: when the worker has handled a request line that is a JSON object,
\* exactly one response line has been written for it.
C5_OneResponsePerRequest ==
  \A c \in Conns :
    (pc[c] = "done" /\ req[c].kind = "line" /\ req[c].n > 0 /\ req[c].json)
      => Len(resp[c]) = 1

\* C6: a blank line does not end the session: the worker that read it is not
\* in teardown and keeps its slot table.
C6_BlankLineSkipped ==
  \A c \in Conns :
    (req[c] \in BlankLines) =>
      /\ pc[c] \notin {"cleanup", "cleanup_locked", "cleanup_unlocked", "closed"}
      /\ resp[c] = <<>>

\* C7: after a peer disconnect or a read error, teardown releases the slots in
\* use while it holds the mutex, and the closed connection owns no compiled
\* statement.
C7_TeardownUnderLock ==
  \A c \in Conns :
    req[c].kind \in {"eof", "error"} =>
      /\ (pc[c] \in {"cleanup_locked", "cleanup_unlocked"} /\ InUse(slots[c]) # {})
           => mutex[TcpMutex] = c
      /\ pc[c] = "closed" => \A e \in engine_live : e.by # c

\* C8: a handler whose wait for the mutex times out makes no engine call,
\* answers 500 "db mutex timeout" and returns to the loop, leaving the mutex
\* and the compiled statements as they were; a handler waiting for the mutex
\* can always proceed, by taking it or by timing out.
C8_LockTimeoutIs500 ==
  /\ [](\A c \in Conns : pc[c] = "take" => ENABLED (TakeOk(c) \/ TakeTimeout(c)))
  /\ [][\A c \in Conns :
          (pc[c] = "take" /\ pc'[c] # "take" /\ mutex'[TcpMutex] # c) =>
            /\ pc'[c] = "done"
            /\ resp'[c] = <<make_err(500, "db mutex timeout", 62)>>
            /\ mutex' = mutex
            /\ engine_live' = engine_live
            /\ engine_misuse' = engine_misuse
            /\ IdsInUse(slots'[c]) \subseteq IdsInUse(slots[c])]_vars

\* a prepare answered 500 because the console kept the mutex
C8_Witness ==
  \E c \in Conns :
    /\ IsOp(req[c], "prepare") /\ Answered(c, 500)
    /\ resp[c][1].kind = "db mutex timeout"
    /\ mutex[TcpMutex] = "telnet"

\* C9: no two tasks of different components are inside an engine call on the
\* shared handle at the same time.
C9_OneLockForAllComponents ==
  /\ ~(InEngine("http") /\ InEngine("telnet"))
  /\ \A c \in Conns : ~(InEngine("http") /\ pc[c] = "locked")

\* C10: a step changes the slot table and id counter of at most one
\* connection, the one whose worker moves; a step or finalize is answered 404
\* exactly when its id is not in use in the table of the connection it arrived
\* on; a new connection starts with every slot free and the counter at 1.
C10_TablesIndependent ==
  /\ [](\A c \in Conns : pc[c] = "start" =>
          /\ InUse(slots[c]) = {}
          /\ Len(slots[c]) = cfg.max_stmts_per_client
          /\ next_stmt_id[c] = 1)
  /\ [][\A b \in Conns :
          /\ (slots'[b] # slots[b] \/ next_stmt_id'[b] # next_stmt_id[b]) =>
               /\ pc'[b] # pc[b]
               /\ \A a \in Conns \ {b} :
                    /\ pc'[a] = pc[a]
                    /\ slots'[a] = slots[a]
                    /\ next_stmt_id'[a] = next_stmt_id[a]
          /\ ( /\ Reads(b)
               /\ \E o \in {"step", "finalize"} : IsOp(req'[b], o)
               /\ json_get_int(req'[b].stmt, -1) > 0 ) =>
               IF StaleId(slots[b], req'[b].stmt)
               THEN /\ pc'[b] = "done"
                    /\ resp'[b] = <<make_err(404, "stmt not found", 60)>>
               ELSE /\ pc'[b] = "take"
                    /\ slots[b][slot'[b]].id = req'[b].stmt.n]_vars

\* an id in use on one connection, and the same number answered 404 on the
\* other connection, which has not issued it
C10_Witness ==
  \E a, b \in Conns :
    /\ a # b
    /\ \E o \in {"step", "finalize"} : IsOp(req[b], o)
    /\ Answered(b, 404)
    /\ req[b].stmt.n \in IdsInUse(slots[a])
    /\ req[b].stmt.n \notin issued[b]

\* the operations of the protocol description
ProtocolOps ==
  {"ping", "exec", "prepare", "bind", "step", "reset", "finalize", "pragma"}

\* the line r reaches dispatch: it is not empty as a C string
Dispatched(r) == r.kind = "line" /\ r.n > 0 /\ ~r.nul0

\* the step leaves the table, the counter, the mutex and the engine alone
Untouched(c) ==
  /\ slots'[c] = slots[c]
  /\ next_stmt_id'[c] = next_stmt_id[c]
  /\ mutex' = mutex
  /\ engine_live' = engine_live
  /\ engine_misuse' = engine_misuse

C16_PingWithoutLock ==
  [][\A c \in Conns :
       (Reads(c) /\ Dispatched(req'[c]) /\ req'[c].json /\ IsOp(req'[c], "ping")) =>
         /\ pc'[c] = "done"
         /\ resp'[c] = <<make_ok("pong", 0, 23)>>
         /\ Untouched(c)]_vars

\* a ping answered while the console holds the mutex
C16_Witness ==
  \E c \in Conns :
    /\ IsOp(req[c], "ping") /\ pc[c] = "done"
    /\ resp[c] = <<make_ok("pong", 0, 23)>>
    /\ mutex[TcpMutex] = "telnet"

\* C17: a pragma request with a valid query is answered ok with the result
\* rows and takes no statement slot.
C17_PragmaAnswered ==
  \A c \in Conns :
    ( /\ pc[c] = "done" /\ Dispatched(req[c]) /\ req[c].json
      /\ IsOp(req[c], "pragma") /\ json_get_string(req[c].sql) = "good" ) =>
        /\ Len(resp[c]) = 1
        /\ resp[c][1].ok
        /\ resp[c][1].kind = "pragma"

\* C18: a request whose op is a string outside the protocol's operations is
\* answered 501 in the step that reads it, without a request for the mutex,
\* an engine call or a change of a slot, and the worker goes on reading.
C18_UnknownOpIs501 ==
  /\ [][\A c \in Conns :
          ( /\ Reads(c) /\ Dispatched(req'[c]) /\ req'[c].json
            /\ cJSON_IsString(req'[c].op)
            /\ req'[c].op.s \notin ProtocolOps ) =>
              /\ pc'[c] = "done"
              /\ resp'[c] = <<make_err(501, "unknown op", 56)>>
              /\ Untouched(c)]_vars
  /\ [](\A c \in Conns : Answered(c, 501) => ENABLED client_task_again(c))

\* an unknown op answered 501 on a connection that holds a statement
C18_Witness ==
  \E c \in Conns :
    /\ IsOp(req[c], "vacuum") /\ Answered(c, 501)
    /\ \E i \in InUse(slots[c]) : slots[c][i].stmt # 0

\* the bind request r carries a value whose JSON shape does not match its
\* type, or a type that is none of null, int, double and text
WrongShape(r) ==
  \/ r.type.s \in {"int", "double"} /\ r.value.t # "number"
  \/ r.type.s = "text" /\ r.value.t # "string"
  \/ r.type.s \notin {"null", "int", "double", "text"}

C20_StepsDeliverRowsInOrder ==
  [][/\ \A c \in Conns :
          (pc[c] = "locked" /\ pc'[c] # "locked" /\ IsOp(req[c], "step")) =>
            LET h == slots[c][slot[c]].stmt
                after == CHOOSE x \in engine_live' : x.h = h
            IN /\ after.pos = Stmt(h).pos + 1 =>
                    /\ Len(resp'[c]) = 1
                    /\ resp'[c][1].kind = "row"
                    /\ resp'[c][1].row = Stmt(h).pos + 1
               /\ (Stmt(h).pos = MaxRows /\ Len(resp'[c]) = 1 /\ resp'[c][1].ok) =>
                    resp'[c][1].kind = "done"
     /\ \A e \in engine_live : \A x \in engine_live' :
          (x.h = e.h /\ x.pos # e.pos) =>
            /\ pc[e.by] = "locked" /\ pc'[e.by] # "locked"
            /\ \E o \in {"step", "reset"} : IsOp(req[e.by], o)]_vars

\* the line has a byte that is no carriage return
NonBlank(l) == \E i \in 1..Len(l) : l[i] # CR

\* a line of text: not blank, and with no carriage return but a trailing one
TextLine(l) == NonBlank(l) /\ \A i \in 1..(Len(l) - 1) : l[i] # CR

\* the line without its trailing carriage return
StripTrailingCR(l) ==
  IF l # <<>> /\ l[Len(l)] = CR THEN SubSeq(l, 1, Len(l) - 1) ELSE l

\* the worker has left its loop
InTeardown(c) == pc[c] \in {"cleanup", "cleanup_locked", "cleanup_unlocked"}

\* C12: after a first line of text longer than rx_line_max the connection stays
\* open, that line has got a single 400, and the second text handed to
\* dispatch is the second line the peer sent, from its first byte.
C12_OversizedLineResync ==
  ( /\ Len(sent) = 2
    /\ Len(sent[1]) > cfg.rx_line_max
    /\ TextLine(sent[1]) /\ TextLine(sent[2]) ) =>
      /\ Len(handed) <= 2
      /\ Len(handed) = 2 => handed[2] = StripTrailingCR(sent[2])
      /\ InTeardown("A") => req["A"].kind = "eof"

\* C13: when every line the peer sent is text of at most rx_line_max bytes, the
\* texts handed to dispatch are, in order, the lines without their trailing
\* carriage return, one text per line, and every line has been handed over
\* when the worker leaves its loop.
C13_LinesFramedExactly ==
  (\A i \in 1..Len(sent) : Len(sent[i]) <= cfg.rx_line_max /\ TextLine(sent[i])) =>
    /\ Len(handed) <= Len(sent)
    /\ \A i \in 1..Len(handed) : handed[i] = StripTrailingCR(sent[i])
    /\ InTeardown("A") => Len(handed) = Len(sent)

\* C14: a read error or disconnect sends the worker to its teardown, a
\* failed write does so too, the teardown leaves no compiled statement of
\* the connection, and a step of one worker changes no other connection's
\* position, table or counter.
C14_TransportFailureEndsOnlyThatWorker ==
  [][\A c \in Conns :
       /\ (Reads(c) /\ req'[c].kind \in {"eof", "error"}) => pc'[c] = "cleanup"
       /\ (sock_err[c] /\ pc[c] # "done" /\ pc'[c] = "done") => InTeardown(c)'
       /\ (InTeardown(c) /\ pc'[c] = "closed") => \A e \in engine_live' : e.by # c
       /\ pc'[c] # pc[c] =>
            \A o \in Conns \ {c} :
              /\ pc'[o] = pc[o]
              /\ slots'[o] = slots[o]
              /\ next_stmt_id'[o] = next_stmt_id[o]]_vars

\* C15: a worker leaves its loop only when recv reported a disconnect or an
\* error, whatever lines of text the peer sent before.
C15_OnlyDisconnectEndsSession ==
  (\A i \in 1..Len(sent) : TextLine(sent[i])) =>
    (InTeardown("A") => req["A"].kind \in {"eof", "error"})

(* ------------------------- row responses ------------------------------ *)

\* C21: in every row response of step, row and types have the length of the
\* statement's column count, row[i] is JSON null exactly when types[i] is
\* "null", and every value that is not null is a JSON string.
C21_RowMatchesTypes ==
  \A c \in Conns : \A k \in 1..Len(resp[c]) :
    LET r == resp[c][k] IN
    r.kind = "row" =>
    /\ Len(r.cells) = ColumnCount
    /\ Len(r.types) = ColumnCount
    /\ \A i \in 1..ColumnCount :
         /\ (r.cells[i] = JNull) <=> (r.types[i] = "null")
         /\ r.cells[i] # JNull => cJSON_IsString(r.cells[i])

\* a row with a NULL column beside an integer column is on the socket
C21_Witness ==
  \E c \in Conns : \E k \in 1..Len(resp[c]) :
    LET r == resp[c][k] IN
    /\ r.kind = "row"
    /\ r.types = <<"int", "null">>
    /\ r.cells[1] # JNull /\ r.cells[2] = JNull

\* C22: after a reset answered ok the cursor of the statement stands before
\* the first row, so that the next step that yields a row yields row 1; the
\* binding is cleared when clear_binds is absent or true and is the binding
\* of before when clear_binds is false.
C22_ResetRewinds ==
  [][\A c \in Conns :
       /\ (pc[c] = "locked" /\ pc'[c] # "locked" /\ IsOp(req[c], "reset")
             /\ Len(resp'[c]) = 1 /\ resp'[c][1].ok) =>
            LET h == slots[c][slot[c]].stmt
                after == CHOOSE x \in engine_live' : x.h = h
            IN /\ after.pos = 0
               /\ req[c].clear_binds \in {JAbsent, JBool(TRUE)} => after.bound = NoBinding
               /\ req[c].clear_binds = JBool(FALSE) => after.bound = Stmt(h).bound
       /\ (pc[c] = "locked" /\ pc'[c] # "locked" /\ IsOp(req[c], "step")
             /\ Stmt(slots[c][slot[c]].stmt).pos = 0
             /\ Len(resp'[c]) = 1 /\ resp'[c][1].kind = "row") =>
            resp'[c][1].row = 1]_vars

\* a reset with clear_binds false was answered ok: the statement stands
\* before its first row and still has the text bound before
C22_Witness ==
  \E c \in Conns :
    /\ pc[c] = "done" /\ IsOp(req[c], "reset") /\ req[c].clear_binds = JBool(FALSE)
    /\ Len(resp[c]) = 1 /\ resp[c][1].ok
    /\ \E i \in InUse(slots[c]) :
         /\ slots[c][i].id = req[c].stmt.n
         /\ Stmt(slots[c][i].stmt).pos = 0
         /\ Stmt(slots[c][i].stmt).bound = [type |-> "text", value |-> JStr("x")]

(* ------------------------------- exec --------------------------------- *)

\* C23: the counters of a successful exec response are those the request's
\* own script left, no other task is inside the engine between the script
\* and the counter reads, and no step of an exec changes a statement slot.
C23_ExecCountersAreOwn ==
  [][\A c \in Conns :
       /\ pc[c] = "counters" => \A t \in Tasks \ {c} : ~InEngine(t)
       /\ (pc[c] = "counters" /\ pc'[c] = "done"
             /\ Len(resp'[c]) = 1 /\ resp'[c][1].kind = "exec") =>
            resp'[c][1].counters =
              [by |-> c, applied |-> sqlite3_exec(Script(req[c].sql.s)).applied]
       /\ (pc[c] \in {"take", "locked", "counters", "errmsg"} /\ IsOp(req[c], "exec")) =>
            slots'[c] = slots[c]]_vars

\* C24: exec wraps no transaction: when statement j of the script fails, the
\* statements before j are in effect after the call and stay in effect when
\* the handler returns, no statement after j has run, and the answer is 500.
C24_ExecStopsAtFirstFailure ==
  [][\A c \in Conns :
       LET j == FirstFailing(Script(json_get_string(req[c].sql))) IN
       /\ (pc[c] = "locked" /\ pc'[c] # "locked" /\ IsOp(req[c], "exec") /\ j > 0) =>
            db_last' = [by |-> c, applied |-> [k \in 1..(j - 1) |-> k]]
       /\ (pc[c] \in {"counters", "errmsg"} /\ pc'[c] # pc[c] /\ IsOp(req[c], "exec")
             /\ j > 0) =>
            /\ db_last' = db_last
            /\ pc'[c] = "done" => resp'[c] = <<make_err(500, "sqlite", 301)>>]_vars

\* the exec of a script whose second statement fails was answered 500 and the
\* first statement is in effect
C24_Witness ==
  \E c \in Conns :
    /\ pc[c] = "done" /\ IsOp(req[c], "exec") /\ req[c].sql = JStr("multi")
    /\ Answered(c, 500)
    /\ db_last = [by |-> c, applied |-> <<1>>]

(* ----------------------------- the listener --------------------------- *)

\* C25: the listener never terminates: from an accept failure and from an
\* allocation failure it goes back to accept, and a step of the listener
\* that creates no worker changes nothing of any worker.
C25_ListenerKeepsAccepting ==
  /\ [](pc["server"] \in {"accept", "delay", "create"})
  /\ [](pc["server"] = "delay" => ENABLED server_task_retry)
  /\ [][/\ pc["server"] = "delay" => pc'["server"] \in {"delay", "accept"}
        /\ pc["server"] = "create" => pc'["server"] \in {"create", "accept"}
        /\ (pc'["server"] # pc["server"] /\ \A c \in Conns : pc'[c] = pc[c]) =>
             UNCHANGED <<slots, next_stmt_id, req, resp, slot, mutex, engine_live,
                         engine_misuse, issued, finalized, sock_err, db_last>>]_vars

\* accept has failed while one worker holds the mutex and the other waits for
\* it
C25_Witness ==
  /\ pc["server"] = "delay"
  /\ mutex[TcpMutex] = "A"
  /\ pc["B"] = "take"

\* C26: max_clients is the listen backlog only: however many workers are
\* active, the listener in accept takes the next connection, so more than
\* max_clients workers can be active together.
C26_MaxClientsBoundsNoWorkers ==
  [](\A c \in Conns :
       (pc["server"] = "accept" /\ pc[c] = "closed") => ENABLED server_task_accept(c))

\* two workers are active under max_clients 1, one holding the mutex and one
\* waiting for it
C26_Witness ==
  /\ cfg.max_clients = 1
  /\ ActiveWorkers > cfg.max_clients
  /\ pc["A"] = "locked" /\ pc["B"] = "take"

(* ------------------------------ the lines ----------------------------- *)

\* C27: every line written to a TCP connection is, with its newline, at most
\* tx_line_max bytes long, where tx_line_max is 4096 under a configured
\* value <= 0.
C27_LinesWithinTxLineMax ==
  /\ cfg.tx_line_max = 4096
  /\ \A c \in Conns : \A i \in 1..Len(resp[c]) : resp[c][i].len + 1 <= cfg.tx_line_max

\* a row of 4095 bytes, 4096 with its newline, was written
C27_Witness ==
  \E c \in Conns :
    /\ pc[c] = "done" /\ IsOp(req[c], "step")
    /\ Len(resp[c]) = 1 /\ resp[c][1].kind = "row"
    /\ resp[c][1].len + 1 = cfg.tx_line_max

(* -------------------------- console sessions -------------------------- *)

\* C28: last client wins: when a client has connected while the console
\* waits for input of another client, the console accepts it, which closes
\* the other client and makes the new one the session.
C28_LastClientWins ==
  [](\A k \in TelnetClients :
       (tel_peer[k] = "queued" /\ s_client_fd # NoClient /\ pc["telnet"] = "idle") =>
          ENABLED telnet_task_accept(k))

(* ------------------------- the lock and the socket -------------------- *)

C32_GreetingFirst ==
  /\ [](\A c \in Conns : pc[c] = "start" => resp[c] = <<>> /\ req[c] = NoLine)
  /\ [][\A c \in Conns :
          (pc[c] = "start" /\ pc'[c] # "start") =>
            \/ pc'[c] = "closed"
            \/ /\ pc'[c] = "done"
               /\ resp'[c] = <<make_ok("hello", 0, 35)>>
               /\ req'[c] = NoLine]_vars

\* the greeting is on the socket and no line has been read
C32_Witness ==
  \E c \in Conns :
    /\ pc[c] = "done" /\ req[c] = NoLine
    /\ resp[c] = <<make_ok("hello", 0, 35)>>

(* ------------------------------ id numbering -------------------------- *)

\* C33 as stated: the ids returned by successful prepares on a connection
\* are 1, 2, 3, ... without a gap.
C33_IdsConsecutive ==
  \A c \in Conns : issued[c] = 1..Cardinality(issued[c])

\* C33: the ids returned on an open connection are at least 1 and below
\* next_stmt_id; a prepare answered at once (400, 409) leaves next_stmt_id as
\* it is, a prepare that asks for the lock has taken the id next_stmt_id for
\* its slot and advanced the counter by one, and whatever the outcome after
\* that (500 or success) the counter is not moved again.
C33_FailedPrepareAfterAllocKeepsId ==
  /\ [](\A c \in Conns : pc[c] # "closed" =>
                            \A i \in issued[c] : 1 <= i /\ i < next_stmt_id[c])
  /\ [][\A c \in Conns :
          /\ (Reads(c) /\ req'[c].kind = "line" /\ req'[c].n > 0 /\ ~req'[c].nul0
                /\ req'[c].json /\ IsOp(req'[c], "prepare")) =>
               IF pc'[c] = "done"
               THEN /\ next_stmt_id'[c] = next_stmt_id[c]
                    /\ Len(resp'[c]) = 1 /\ resp'[c][1].code \in {400, 409}
               ELSE /\ pc'[c] = "take"
                    /\ next_stmt_id'[c] = next_stmt_id[c] + 1
                    /\ slots'[c][slot'[c]].id = next_stmt_id[c]
          /\ (pc[c] \in {"take", "locked", "errmsg", "colmeta"} /\ IsOp(req[c], "prepare")) =>
               /\ next_stmt_id'[c] = next_stmt_id[c]
               /\ (pc'[c] = "done" /\ Len(resp'[c]) = 1 /\ resp'[c][1].ok) =>
                    resp'[c][1].stmt < next_stmt_id[c]]_vars

\* the first successful prepare of a connection was answered stmt 2, after
\* a prepare that failed with 500 had used id 1
C33_Witness ==
  \E c \in Conns :
    /\ pc[c] = "done" /\ IsOp(req[c], "prepare")
    /\ Len(resp[c]) = 1 /\ resp[c][1].ok /\ resp[c][1].stmt = 2
    /\ issued[c] = {2}

(* ------------------------- errors and the table ----------------------- *)

\* C34: between two requests the ids in use on a connection are the ids
\* returned by successful prepares less those whose finalize was answered ok,
\* so that a request answered with an error leaves them as they were; no
\* step replaces the statement of a slot that stays in use; a prepare that
\* ends in a 500 has freed the slot it took and a finalize that ends in a
\* 500 has left its slot in use.
C34_ErrorsKeepSlots ==
  /\ [](\A c \in Conns :
          pc[c] \in {"done", "recv"} => IdsInUse(slots[c]) = issued[c] \ finalized[c])
  /\ [][\A c \in Conns :
          /\ \A i \in 1..Len(slots[c]) :
               (i <= Len(slots'[c]) /\ slots[c][i].in_use /\ slots'[c][i].in_use
                  /\ slots[c][i].stmt # 0) =>
                 (slots'[c][i].id = slots[c][i].id /\ slots'[c][i].stmt = slots[c][i].stmt)
          /\ (pc[c] # "done" /\ pc'[c] = "done" /\ Len(resp'[c]) = 1 /\ resp'[c][1].code = 500) =>
               /\ IsOp(req[c], "prepare") =>
                    \A i \in InUse(slots'[c]) : slots'[c][i].id \in issued[c]
               /\ IsOp(req[c], "finalize") =>
                    /\ slots'[c] = slots[c]
                    /\ req[c].stmt.n \in IdsInUse(slots'[c])]_vars

\* a finalize that timed out on the lock was answered 500 and its statement
\* is still in its slot and live
C34_Witness ==
  \E c \in Conns :
    /\ IsOp(req[c], "finalize") /\ Answered(c, 500)
    /\ \E i \in InUse(slots[c]) :
         /\ slots[c][i].id = req[c].stmt.n
         /\ slots[c][i].stmt \in LiveHandles

\* C35: an answer 400, 404 or 409 is decided in the step that reads the
\* request, before the mutex is asked for: that step leaves the mutex and the
\* engine as they are, whoever holds the mutex; a worker that goes on to ask
\* for the mutex has a request that passed validation (a prepare owns a fresh
\* slot, a statement operation found its slot); and a prepare with an sql
\* text on a full table is answered 409 whatever the text.
C35_ValidationBeforeLock ==
  [][\A c \in Conns :
       /\ (pc[c] # "done" /\ pc'[c] = "done" /\ Len(resp'[c]) = 1
             /\ resp'[c][1].code \in {400, 404, 409}) =>
            /\ Reads(c)
            /\ mutex' = mutex
            /\ engine_live' = engine_live
            /\ engine_misuse' = engine_misuse
            /\ db_last' = db_last
       /\ (pc[c] # "take" /\ pc'[c] = "take") =>
            /\ Reads(c)
            /\ mutex' = mutex /\ engine_live' = engine_live
            /\ IsOp(req'[c], "prepare") =>
                 /\ slot'[c] \in InUse(slots'[c]) \ InUse(slots[c])
                 /\ json_get_string(req'[c].sql) \notin {"NULL", ""}
            /\ IsOp(req'[c], "exec") => json_get_string(req'[c].sql) \notin {"NULL", ""}
            /\ (\E o \in {"bind", "step", "reset", "finalize"} : IsOp(req'[c], o)) =>
                 /\ slot'[c] \in InUse(slots[c])
                 /\ slots[c][slot'[c]].id = req'[c].stmt.n
       /\ (Reads(c) /\ Dispatched(req'[c]) /\ IsOp(req'[c], "prepare")
             /\ json_get_string(req'[c].sql) \notin {"NULL", ""}
             /\ InUse(slots[c]) = 1..Len(slots[c])) =>
            /\ pc'[c] = "done"
            /\ resp'[c] = <<make_err(409, "no free stmt slots", 64)>>
            /\ slots'[c] = slots[c]]_vars

\* a prepare of a text that does not compile, on a full table, answered 409
\* while the console holds the mutex
C35_Witness ==
  \E c \in Conns :
    /\ mutex[TcpMutex] = "telnet"
    /\ IsOp(req[c], "prepare") /\ req[c].sql = JStr("bad")
    /\ Answered(c, 409)

\* C36: whenever a worker waits for the next request line (or has just
\* answered one), its slot table is well formed: every slot in use has an id
\* with 1 <= id < next_stmt_id and holds a live compiled statement, no two
\* slots in use have the same id, and every free slot has id 0 and no
\* statement.
C36_TableWellFormed ==
  \A c \in Conns :
    pc[c] \in {"recv", "done"} =>
      /\ Len(slots[c]) = cfg.max_stmts_per_client
      /\ \A i \in 1..Len(slots[c]) :
           IF slots[c][i].in_use
           THEN /\ 1 <= slots[c][i].id /\ slots[c][i].id < next_stmt_id[c]
                /\ slots[c][i].stmt # 0
                /\ slots[c][i].stmt \in LiveHandles
                /\ \A j \in 1..Len(slots[c]) :
                     (j # i /\ slots[c][j].in_use) =>
                       /\ slots[c][j].id # slots[c][i].id
                       /\ slots[c][j].stmt # slots[c][i].stmt
           ELSE /\ slots[c][i].id = 0
                /\ slots[c][i].stmt = 0

\* a worker waiting for a line with two statements open, one of them in a
\* slot that an earlier statement occupied
C36_Witness ==
  \E c \in Conns :
    /\ pc[c] = "recv"
    /\ Cardinality(InUse(slots[c])) = 2
    /\ finalized[c] # {}

\* C37: a compiled statement is finalized exactly once over the life of its
\* connection and never used afterwards: sqlite3_finalize is never called
\* on a statement that is not live; between two requests every live
\* statement of the connection sits in exactly one slot in use, so that one
\* finalize or the teardown reaches it; a finalize answered ok takes its
\* statement, and only that one, out of the engine; bind, step, reset and
\* clear-bindings act on a live statement of their own connection; and a
\* closed connection has left no statement behind.
C37_FinalizedExactlyOnce ==
  /\ [](~engine_misuse)
  /\ [](\A c \in Conns :
          /\ pc[c] = "closed" => \A e \in engine_live : e.by # c
          /\ pc[c] \in {"recv", "done", "cleanup", "cleanup_locked", "cleanup_unlocked"} =>
               \A e \in engine_live :
                 e.by = c => Cardinality({i \in InUse(slots[c]) : slots[c][i].stmt = e.h}) = 1
          /\ (pc[c] \in {"locked", "colmeta"}
                /\ \E o \in {"bind", "step", "reset"} : OpIs(c, o)) =>
               \E e \in engine_live : e.by = c /\ e.h = slots[c][slot[c]].stmt)
  /\ [][\A c \in Conns :
          /\ (pc[c] = "locked" /\ OpIs(c, "finalize") /\ pc'[c] = "done") =>
               LET h == slots[c][slot[c]].stmt IN
               /\ h \in LiveHandles
               /\ engine_live' = {e \in engine_live : e.h # h}
               /\ \A i \in InUse(slots'[c]) : slots'[c][i].stmt # h
          /\ (pc[c] # "closed" /\ pc'[c] = "closed") =>
               /\ \A i \in InUse(slots[c]) :
                    slots[c][i].stmt # 0 => slots[c][i].stmt \in LiveHandles
               /\ engine_live' = {e \in engine_live : e.by # c}]_vars

\* a connection closed after it finalized one statement itself and left
\* another to the teardown
C37_Witness ==
  \E c \in Conns :
    /\ pc[c] = "closed"
    /\ finalized[c] # {}
    /\ issued[c] \ finalized[c] # {}
    /\ engine_live = {}

\* C38: the diagnostic in the 500 answer to a failed prepare or exec is the
\* one of that request's own engine call: when the handler reads
\* sqlite3_errmsg(c->db), the error state of the handle is still the one its
\* own call left, whatever the other users of the database did meanwhile.
C38_DiagnosticIsOwn ==
  [][\A c \in Conns :
       (pc[c] = "errmsg" /\ pc'[c] = "done"
          /\ (IsOp(req[c], "prepare") \/ IsOp(req[c], "exec"))) =>
         /\ db_errmsg = c
         /\ resp'[c] = <<make_err(500, "sqlite", 301)>>]_vars

\* C39: every accepted socket is closed and its context freed, at once when
\* an allocation fails or by its worker at teardown: a socket that is open
\* has a worker task serving it, also when the creation of the worker
\* failed, and each step of the listener after accept either leaves the
\* socket closed or leaves it to a worker that starts.
C39_AcceptedSocketsServed ==
  /\ [](\A c \in Conns :
          pc[c] # "closed" =>
            pc[c] \in {"start", "recv", "done", "take", "locked", "counters", "errmsg",
                       "colmeta", "cleanup", "cleanup_locked", "cleanup_unlocked"})
  /\ [][\A c \in Conns :
          (pc["server"] = "create" /\ pc'["server"] = "accept" /\ pc[c] = "closed") =>
            pc'[c] \in {"closed", "start"}]_vars

\* C31: the console's .import is one transaction under the lock: when it
\* ends with every attempted insert succeeded, the rows it inserted are all
\* committed; when an insert failed, none of its rows remains; a line of
\* another field count is skipped and the import goes on; the console holds
\* the mutex from its take to its end and has given it back on every way out.
C31_ImportIsOneTransaction ==
  /\ [](LET inserted == {k \in 1..tel_import.line : tel_import.file[k] = "ok"} IN
        /\ pc["telnet"] \in {"import_begin", "import_rows"} <=> mutex[TelnetMutex] = "telnet"
        /\ tel_import.said = "imported" =>
             /\ ~tel_import.had_error
             /\ tel_import.line = Len(tel_import.file)
             /\ db_txn.durable = inserted
             /\ tel_import.rows = Cardinality(inserted)
        /\ tel_import.said \in {"failed", "prepare failed"} => db_txn.durable = {})
  /\ [][(pc["telnet"] = "import_rows" /\ tel_import'.line # tel_import.line
           /\ tel_import'.file[tel_import'.line] = "short") =>
          /\ pc'["telnet"] = "import_rows"
          /\ ~tel_import'.had_error
          /\ tel_import'.rows = tel_import.rows
          /\ db_txn' = db_txn]_vars

====
